---- MODULE Spec2Model ----
(***************************************************************************)
(* A model of the chess engine camc/chess: the transposition table and its *)
(* mutex, the worker pool, the Lazy-SMP dispatch of root searches, the     *)
(* position model with make_move and the legality rules, the opening book  *)
(* and the values of the negamax search.                                   *)
(*                                                                         *)
(* Each subsystem has its own specification (SpecTT, SpecPool, ...).  A    *)
(* specification leaves the variables of the other subsystems at their     *)
(* initial values.                                                         *)
(***************************************************************************)
EXTENDS Integers, Sequences, FiniteSets, TLC

VARIABLES
    \* ---- transposition table (tptable.c)
    tp_table,        \* tp_table[slot]: the TranspositionEntry stored in the slot
    protected_hash,  \* static ZobristHash protected_hash
    tp_table_mutex,  \* the thread holding tp_table_mutex, or NoThread
    tt_pc,           \* tt_pc[t]: where thread t is inside a tptable_* call
    tt_hash,         \* tt_hash[t]: the hash argument of t's tptable_get / set_protected
    tt_entry,        \* tt_entry[t]: the entry argument of t's tptable_put
    tt_local,        \* tt_local[t]: the local struct (t / prev / entry) of the call
    tt_idx,          \* tt_idx[t]: progress of the memset of tptable_clear
    protect_done,    \* history: a tptable_set_protected_hash call has returned, none is running
    cleared,         \* history: tptable_clear has run since the last set_protected call
    \* ---- thread pool (threadpool.c)
    queue,           \* pool->queue[i]: the task stored at index i
    queue_front,     \* pool->queue_front (THREADPOOL_QUEUE_SIZE when the queue is empty)
    queue_back,      \* pool->queue_back
    thread_count,    \* pool->thread_count (atomic)
    fifo,            \* history: the tasks enqueue has accepted and dequeue has not given out, oldest first
    w_pc,            \* w_pc[w]: where worker w is inside thread_start_func
    w_task,          \* w_task[w]: the local struct Task of worker w
    m_pc,            \* where the owning thread is (threadpool_enqueue / threadpool_deinit)
    submitted,       \* number of threadpool_enqueue calls made so far
    pending,         \* history: number of tasks enqueued and not yet dequeued
    m_seen,          \* history: the thread_count the running threadpool_enqueue call loaded
    m_full,          \* history: the queue held THREADPOOL_QUEUE_SIZE tasks when enqueue was tried
    m_outcome,       \* history: what the running threadpool_enqueue call did with its task
    m_woke,          \* history: the worker the last cnd_signal of the call woke, if any
    \* ---- move generation (engine.c generate_move, main.c game_loop)
    g_pc,            \* where the game loop / generate_move is
    next_depth,      \* the loop variable depth of generate_move
    inline_task,     \* the depth of the task threadpool_enqueue is running inline, or 0
    elapsed,         \* time(NULL) - start_time >= MAX_MOVEGEN_SEARCH_TIME
    task_status,     \* task_status[d]: where the movegen_task of depth d is
    task_outcome,    \* task_outcome[d]: how negamax_from_root of depth d ended
    node_done,       \* node_done[d]: the search of depth d has been through its node at the root position
    refcount,        \* refcount->count
    freed,           \* number of times arg->state and arg->legal_moves were freed
    slot_origin,     \* history: who stored the entry now in the slot of the root hash
    played,          \* the entry the game loop read when it ended the move generation
    played_origin,   \* history: slot_origin when played was read
    seen_completed,  \* history: the deepest root search completed when played was read
    root_move_count, \* state->move_count of the position generate_move is called for
    opening,         \* the moves of the book's entry for the root hash ({}: no entry)
    book_move,       \* the move generate_move picked from the entry, or NULL_MOVE
    \* ---- position and game loop (chess.c, engine.c make_move, main.c game_loop)
    game,              \* *frontend_state.game_state, a struct GameState
    selected_position, \* frontend_state.selected_position
    winner,            \* frontend_state.winner
    disturbed,         \* history: the corner and king squares a move has left or landed on
    last_ply,          \* history: the move made last and the piece that made it
    scenario,          \* which set of mouse clicks the players draw from
    move_log,          \* frontend_state.move_log: the moves logged, oldest first
    two_player_mode,   \* frontend_state.two_player_mode
    \* ---- opening book (openings.c)
    book_file,       \* the records of res/opening_book.bin
    items,           \* static struct OpeningItem *items (indexed from 1)
    items_count,     \* static unsigned int items_count
    book_pc,         \* whether the book is loaded
    bs_pc,           \* where a find_opening_by_hash call is
    bs_hash,         \* binary_search_items: hash
    low,             \* binary_search_items: low
    high,            \* binary_search_items: high
    bs_result,       \* the index of the item find_opening_by_hash returns, or NULL_ITEM
    bs_wrapped,      \* history: an unsigned operation of the call has wrapped around
    bs_outside,      \* history: the call has read items[] outside 0 .. items_count - 1
    \* ---- the search (engine.c negamax_from_root, negamax)
    call_stack,      \* the calls of negamax_from_root and negamax in progress
    returned,        \* the value the last call of negamax returned
    table_entry,     \* the entry the transposition table has for a position of the search
    time_up,         \* time(NULL) - start_time >= MAX_MOVEGEN_SEARCH_TIME
    overflowed,      \* a negation of the search was applied to INT_MIN
    \* ---- the search of a position (engine.c negamax_from_root)
    root_fen,         \* which position is searched
    root_state,       \* negamax_from_root: state
    root_pc,          \* where the call of negamax_from_root is
    root_depth,       \* negamax_from_root: depth
    root_legal_moves, \* negamax_from_root: legal_moves (indexed from 1)
    root_i,           \* negamax_from_root: i + 1
    root_alpha,       \* negamax_from_root: alpha
    root_best_value,  \* negamax_from_root: best_value
    root_best_move,   \* negamax_from_root: best_move
    position_table,   \* the entries of the transposition table, one slot a position
    root_searches,    \* number of calls of negamax_from_root made
    \* ---- the program (main.c main, frontend_state.c, ui.c draw_ui)
    c11_build,        \* the build defines HAS_C11_CONCURRENCY
    main_pc,          \* where main is
    mutex_life,       \* tp_table_mutex: before mtx_init, after it, or after mtx_destroy
    tt_misuse,        \* history: the table operations that locked tp_table_mutex outside its life
    message_box,      \* frontend_state.message_box
    movegen_started,  \* frontend_state.movegen_started != 0
    load_returned,    \* history: what the last frontend_new_game_from_fen call returned
    game_table,       \* tp_table as the game fills it, one slot a position
    \* ---- the memory the legality checks work in (engine.c, chess.c copy_gamestate)
    heap,             \* heap[block]: the GameState bytes of the block, and whether it is allocated
    called,           \* the engine function called last on the caller's GameState
    entry_state,      \* the caller's GameState when that call was made
    answer            \* what that call returned

tt_vars == <<tp_table, protected_hash, tp_table_mutex, tt_pc, tt_hash, tt_entry,
             tt_local, tt_idx, protect_done, cleared>>

pool_vars == <<queue, queue_front, queue_back, thread_count, w_pc, w_task, m_pc,
               submitted, pending, m_seen, m_full, m_outcome, m_woke, fifo>>

search_vars == <<g_pc, next_depth, inline_task, elapsed, task_status, task_outcome,
                 node_done, refcount, freed, slot_origin, played, played_origin,
                 seen_completed, root_move_count, opening, book_move>>

\* The inputs of a generate_move call and its pick from the book.
movegen_vars == <<root_move_count, opening, book_move>>

chess_vars == <<game, selected_position, winner, disturbed, last_ply, scenario, move_log,
                two_player_mode>>

book_vars == <<book_file, items, items_count, book_pc, bs_pc, bs_hash, low, high,
               bs_result, bs_wrapped, bs_outside>>

negamax_vars == <<call_stack, returned, table_entry, time_up, overflowed>>

root_vars == <<root_fen, root_state, root_pc, root_depth, root_legal_moves, root_i,
               root_alpha, root_best_value, root_best_move, position_table, root_searches>>

main_vars == <<c11_build, main_pc, mutex_life, tt_misuse, message_box, movegen_started,
               load_returned, game_table>>

legality_vars == <<heap, called, entry_state, answer>>

vars == <<tt_vars, pool_vars, search_vars, chess_vars, book_vars, negamax_vars, root_vars,
          main_vars, legality_vars>>

\* What the operations of one subsystem leave alone: the other subsystems.
tt_rest == <<pool_vars, search_vars, chess_vars, book_vars, negamax_vars, root_vars,
    main_vars, legality_vars>>
pool_others == <<tt_vars, search_vars, chess_vars, book_vars, negamax_vars, root_vars,
    main_vars, legality_vars>>
\* The operations of the pool that neither enqueue nor dequeue leave the
\* history of the queue alone as well.
pool_rest == <<pool_others, fifo>>
search_rest == <<tp_table_mutex, tt_pc, tt_hash, tt_entry, tt_local, tt_idx, protect_done,
                 cleared, pool_vars, chess_vars, book_vars, negamax_vars, root_vars,
                 main_vars, legality_vars>>
chess_rest == <<tt_vars, pool_vars, search_vars, book_vars, negamax_vars, root_vars,
    main_vars, legality_vars>>
book_rest == <<tt_vars, pool_vars, search_vars, chess_vars, negamax_vars, root_vars,
    main_vars, legality_vars>>
negamax_rest == <<tt_vars, pool_vars, search_vars, chess_vars, book_vars, root_vars,
    main_vars, legality_vars>>
root_rest == <<tt_vars, pool_vars, search_vars, chess_vars, book_vars, negamax_vars,
    main_vars, legality_vars>>
main_rest == <<tt_vars, pool_vars, search_vars, book_vars, negamax_vars, root_vars,
    legality_vars>>
legality_rest == <<tt_vars, pool_vars, search_vars, chess_vars, book_vars, negamax_vars,
    root_vars, main_vars>>

-----------------------------------------------------------------------------
(* Board coordinates and moves (chess.h)                                   *)

NULL_BOARDPOS == <<15, 15>>

BoardPos(file, rank) == <<file, rank>>

Move(from, to) == [from |-> from, to |-> to]

\* (struct Move){NULL_BOARDPOS, NULL_BOARDPOS}
NULL_MOVE == Move(NULL_BOARDPOS, NULL_BOARDPOS)

\* the struct Move of a zeroed TranspositionEntry: from = to = {0, 0}
ZERO_MOVE == Move(BoardPos(0, 0), BoardPos(0, 0))

-----------------------------------------------------------------------------
(* Transposition table                                                      *)

\* Number of slots of the table (TRANSPOSITION_TABLE_SIZE, 1048576 in config.h,
\* scaled down).
TableSize == 2

\* Hashes 0 .. HashesPerSlot * TableSize - 1 are used, so that each slot is
\* shared by HashesPerSlot hashes.  Hash 0 is the hash of a zeroed slot.
HashesPerSlot == 2

\* Greatest search depth of an entry given to tptable_put.
MaxPutDepth == 2

\* Number of threads calling into the table.
NumThreads == 2

EntryTypeExact == 0
EntryTypeUpper == 1
EntryTypeLower == 2

Threads == 1..NumThreads
NoThread == 0

Slots == 0..(TableSize - 1)
Hashes == 0..(HashesPerSlot * TableSize - 1)

SlotOf(hash) == hash % TableSize

TranspositionEntry(hash, best_move, depth, value, type) ==
    [hash |-> hash, best_move |-> best_move, depth |-> depth, value |-> value,
     type |-> type]

\* A slot after static zero initialisation or the memset of tptable_clear.
ZeroEntry == TranspositionEntry(0, ZERO_MOVE, 0, 0, EntryTypeExact)

\* The entry tptable_get returns when the slot holds another hash.
NullEntry == TranspositionEntry(0, NULL_MOVE, 0, 0, EntryTypeExact)

\* A move of the position with the given hash, as a search stores it.
MoveOf(hash) == Move(BoardPos(hash % 8, 6), BoardPos(hash % 8, 4))

\* The value a search of the given depth stores for the position.
ValueOf(hash, depth) == 10 * hash + depth

\* The entries the searches hand to tptable_put.
PutInputs ==
    { TranspositionEntry(h, MoveOf(h), d, ValueOf(h, d), ty) :
        h \in Hashes, d \in 1..MaxPutDepth, ty \in {EntryTypeExact, EntryTypeLower} }

\* The first and the second half of the struct, as a struct copy moves them.
FirstHalf(dst, src) == [dst EXCEPT !.hash = src.hash, !.best_move = src.best_move]
SecondHalf(dst, src) ==
    [dst EXCEPT !.depth = src.depth, !.value = src.value, !.type = src.type]

\* mtx_lock(&tp_table_mutex) returns once no other thread holds the mutex.
Mutant_MutexAvailable(t) == TRUE
MutexAvailable(t) == tp_table_mutex = NoThread

\* The replacement test of tptable_put.
Mutant_PutReplaces(prev, entry, protected) ==
    \/ entry.hash /= prev.hash
    \/ (prev.hash = entry.hash /\ prev.depth <= entry.depth)
Mutant_PutReplacesShallower(prev, entry, protected) ==
    \/ (prev.hash /= protected /\ entry.hash /= prev.hash)
    \/ (prev.hash = entry.hash /\ prev.depth >= entry.depth)
Mutant_PutReplacesAnyDepth(prev, entry, protected) ==
    \/ (prev.hash /= protected /\ entry.hash /= prev.hash)
    \/ prev.hash = entry.hash
PutReplaces(prev, entry, protected) ==
    \/ (prev.hash /= protected /\ entry.hash /= prev.hash)
    \/ (prev.hash = entry.hash /\ prev.depth <= entry.depth)

\* The entry tptable_set_protected_hash stores when the slot holds another hash.
SeedEntry(entry, hash) ==
    [entry EXCEPT !.hash = hash, !.depth = 0, !.value = 0, !.best_move = NULL_MOVE]

TTInit ==
    /\ tp_table = [s \in Slots |-> ZeroEntry]
    /\ protected_hash = 0
    /\ tp_table_mutex = NoThread
    /\ tt_pc = [t \in Threads |-> "idle"]
    /\ tt_hash = [t \in Threads |-> 0]
    /\ tt_entry = [t \in Threads |-> ZeroEntry]
    /\ tt_local = [t \in Threads |-> ZeroEntry]
    /\ tt_idx = [t \in Threads |-> 0]
    /\ protect_done = FALSE
    /\ cleared = FALSE

\* ---- tptable_get(hash)
\* mtx_lock, then the copy of the slot into the local t begins.
GetLock(t, hash) ==
    /\ tt_pc[t] = "idle"
    /\ MutexAvailable(t)
    /\ tp_table_mutex' = t
    /\ tt_hash' = [tt_hash EXCEPT ![t] = hash]
    /\ tt_local' = [tt_local EXCEPT ![t] = FirstHalf(ZeroEntry, tp_table[SlotOf(hash)])]
    /\ tt_pc' = [tt_pc EXCEPT ![t] = "get_copy"]
    /\ UNCHANGED <<tp_table, protected_hash, tt_entry, tt_idx, protect_done, cleared>>
    /\ UNCHANGED tt_rest

\* The copy ends, the stored hash is compared, mtx_unlock.
GetCopy(t) ==
    /\ tt_pc[t] = "get_copy"
    /\ LET e == SecondHalf(tt_local[t], tp_table[SlotOf(tt_hash[t])])
       IN  tt_local' = [tt_local EXCEPT ![t] =
                            IF e.hash /= tt_hash[t] THEN NullEntry ELSE e]
    /\ tp_table_mutex' = IF tp_table_mutex = t THEN NoThread ELSE tp_table_mutex
    /\ tt_pc' = [tt_pc EXCEPT ![t] = "get_ret"]
    /\ UNCHANGED <<tp_table, protected_hash, tt_hash, tt_entry, tt_idx, protect_done,
                   cleared>>
    /\ UNCHANGED tt_rest

\* return t
GetReturn(t) ==
    /\ tt_pc[t] = "get_ret"
    /\ tt_pc' = [tt_pc EXCEPT ![t] = "idle"]
    /\ tt_hash' = [tt_hash EXCEPT ![t] = 0]
    /\ tt_local' = [tt_local EXCEPT ![t] = ZeroEntry]
    /\ UNCHANGED <<tp_table, protected_hash, tp_table_mutex, tt_entry, tt_idx,
                   protect_done, cleared>>
    /\ UNCHANGED tt_rest

\* ---- tptable_put(entry)
\* mtx_lock, prev is read and the replacement test is made.
PutLock(t, entry) ==
    /\ tt_pc[t] = "idle"
    /\ MutexAvailable(t)
    /\ tp_table_mutex' = t
    /\ tt_entry' = [tt_entry EXCEPT ![t] = entry]
    /\ tt_local' = [tt_local EXCEPT ![t] = tp_table[SlotOf(entry.hash)]]
    /\ tt_pc' = [tt_pc EXCEPT ![t] =
                    IF PutReplaces(tp_table[SlotOf(entry.hash)], entry, protected_hash)
                    THEN "put_store" ELSE "put_unlock"]
    /\ UNCHANGED <<tp_table, protected_hash, tt_hash, tt_idx, protect_done, cleared>>
    /\ UNCHANGED tt_rest

\* tp_table[...] = entry: the first half of the struct is stored.
PutStore(t) ==
    /\ tt_pc[t] = "put_store"
    /\ LET s == SlotOf(tt_entry[t].hash)
       IN  tp_table' = [tp_table EXCEPT ![s] = FirstHalf(tp_table[s], tt_entry[t])]
    /\ tt_pc' = [tt_pc EXCEPT ![t] = "put_store2"]
    /\ UNCHANGED <<protected_hash, tp_table_mutex, tt_hash, tt_entry, tt_local, tt_idx,
                   protect_done, cleared>>
    /\ UNCHANGED tt_rest

\* The second half of the struct is stored.
PutStore2(t) ==
    /\ tt_pc[t] = "put_store2"
    /\ LET s == SlotOf(tt_entry[t].hash)
       IN  tp_table' = [tp_table EXCEPT ![s] = SecondHalf(tp_table[s], tt_entry[t])]
    /\ tt_pc' = [tt_pc EXCEPT ![t] = "put_unlock"]
    /\ UNCHANGED <<protected_hash, tp_table_mutex, tt_hash, tt_entry, tt_local, tt_idx,
                   protect_done, cleared>>
    /\ UNCHANGED tt_rest

\* mtx_unlock and return
PutUnlock(t) ==
    /\ tt_pc[t] = "put_unlock"
    /\ tp_table_mutex' = IF tp_table_mutex = t THEN NoThread ELSE tp_table_mutex
    /\ tt_pc' = [tt_pc EXCEPT ![t] = "idle"]
    /\ tt_entry' = [tt_entry EXCEPT ![t] = ZeroEntry]
    /\ tt_local' = [tt_local EXCEPT ![t] = ZeroEntry]
    /\ UNCHANGED <<tp_table, protected_hash, tt_hash, tt_idx, protect_done, cleared>>
    /\ UNCHANGED tt_rest

\* ---- tptable_clear()
\* mtx_lock; the memset then zeroes the table slot by slot.
ClearLock(t) ==
    /\ tt_pc[t] = "idle"
    /\ MutexAvailable(t)
    /\ tp_table_mutex' = t
    /\ tt_idx' = [tt_idx EXCEPT ![t] = 0]
    /\ tt_pc' = [tt_pc EXCEPT ![t] = "clear_memset"]
    /\ cleared' = TRUE
    /\ UNCHANGED <<tp_table, protected_hash, tt_hash, tt_entry, tt_local, protect_done>>
    /\ UNCHANGED tt_rest

ClearMemset(t) ==
    /\ tt_pc[t] = "clear_memset"
    /\ tp_table' = [tp_table EXCEPT ![tt_idx[t]] = ZeroEntry]
    /\ IF tt_idx[t] + 1 = TableSize
       THEN /\ tt_pc' = [tt_pc EXCEPT ![t] = "idle"]
            /\ tt_idx' = [tt_idx EXCEPT ![t] = 0]
            /\ tp_table_mutex' = IF tp_table_mutex = t THEN NoThread ELSE tp_table_mutex
       ELSE /\ tt_pc' = tt_pc
            /\ tt_idx' = [tt_idx EXCEPT ![t] = tt_idx[t] + 1]
            /\ tp_table_mutex' = tp_table_mutex
    /\ UNCHANGED <<protected_hash, tt_hash, tt_entry, tt_local, protect_done, cleared>>
    /\ UNCHANGED tt_rest

\* ---- tptable_set_protected_hash(hash)
\* mtx_lock; protected_hash = hash; the slot is read.
ProtectLock(t, hash) ==
    /\ tt_pc[t] = "idle"
    /\ MutexAvailable(t)
    /\ tp_table_mutex' = t
    /\ protected_hash' = hash
    /\ tt_hash' = [tt_hash EXCEPT ![t] = hash]
    /\ tt_local' = [tt_local EXCEPT ![t] = tp_table[SlotOf(hash)]]
    /\ tt_pc' = [tt_pc EXCEPT ![t] =
                    IF tp_table[SlotOf(hash)].hash /= hash
                    THEN "protect_store" ELSE "protect_unlock"]
    /\ protect_done' = FALSE
    /\ UNCHANGED <<tp_table, tt_entry, tt_idx, cleared>>
    /\ UNCHANGED tt_rest

\* The slot holds another hash: it is reset to the seed entry (first half).
ProtectStore(t) ==
    /\ tt_pc[t] = "protect_store"
    /\ LET s == SlotOf(tt_hash[t])
       IN  tp_table' = [tp_table EXCEPT ![s] =
                            FirstHalf(tp_table[s], SeedEntry(tt_local[t], tt_hash[t]))]
    /\ tt_pc' = [tt_pc EXCEPT ![t] = "protect_store2"]
    /\ UNCHANGED <<protected_hash, tp_table_mutex, tt_hash, tt_entry, tt_local, tt_idx,
                   protect_done, cleared>>
    /\ UNCHANGED tt_rest

ProtectStore2(t) ==
    /\ tt_pc[t] = "protect_store2"
    /\ LET s == SlotOf(tt_hash[t])
       IN  tp_table' = [tp_table EXCEPT ![s] =
                            SecondHalf(tp_table[s], SeedEntry(tt_local[t], tt_hash[t]))]
    /\ tt_pc' = [tt_pc EXCEPT ![t] = "protect_unlock"]
    /\ UNCHANGED <<protected_hash, tp_table_mutex, tt_hash, tt_entry, tt_local, tt_idx,
                   protect_done, cleared>>
    /\ UNCHANGED tt_rest

\* mtx_unlock and return
ProtectUnlock(t) ==
    /\ tt_pc[t] = "protect_unlock"
    /\ tp_table_mutex' = IF tp_table_mutex = t THEN NoThread ELSE tp_table_mutex
    /\ tt_pc' = [tt_pc EXCEPT ![t] = "idle"]
    /\ protect_done' = TRUE
    /\ cleared' = FALSE
    /\ tt_hash' = [tt_hash EXCEPT ![t] = 0]
    /\ tt_local' = [tt_local EXCEPT ![t] = ZeroEntry]
    /\ UNCHANGED <<tp_table, protected_hash, tt_entry, tt_idx>>
    /\ UNCHANGED tt_rest

TTNext ==
    \E t \in Threads :
        \/ \E h \in Hashes : GetLock(t, h)
        \/ GetCopy(t)
        \/ GetReturn(t)
        \/ \E e \in PutInputs : PutLock(t, e)
        \/ PutStore(t)
        \/ PutStore2(t)
        \/ PutUnlock(t)
        \/ ClearLock(t)
        \/ ClearMemset(t)
        \/ \E h \in Hashes : ProtectLock(t, h)
        \/ ProtectStore(t)
        \/ ProtectStore2(t)
        \/ ProtectUnlock(t)

-----------------------------------------------------------------------------
(* Thread pool                                                              *)

\* Length of the task ring (THREADPOOL_QUEUE_SIZE, 256 in threadpool.h, scaled
\* down).
QueueSize == 3

\* Greatest number of worker threads threadpool_init starts (nproc()).
MaxWorkers == 2

\* Greatest number of threadpool_enqueue calls the owning thread makes.
MaxTasks == 5

Workers == 1..MaxWorkers
NoWorker == 0

QueueIndex == 0..(QueueSize - 1)

\* struct Task: a task whose func returns true, and the stop sentinel
\* {.func = task_stop}, whose func returns false.
TaskWork == "work"
TaskStop == "stop"
NoTask == "none"

\* task.func(task.arg)
TaskFuncReturns(task) == task /= TaskStop

\* The full test of enqueue.
Mutant_EnqueueFull(front, back) == FALSE
EnqueueFull(front, back) == back = front

\* enqueue(pool, task), between mtx_lock and mtx_unlock: the result and the
\* fields of the pool after it.
Enqueue(q, front, back, task) ==
    IF EnqueueFull(front, back)
    THEN [ok |-> FALSE, queue |-> q, front |-> front, back |-> back]
    ELSE [ok |-> TRUE,
          queue |-> [q EXCEPT ![back] = task],
          front |-> IF front = QueueSize THEN back ELSE front,
          back |-> (back + 1) % QueueSize]

\* dequeue_already_locked(pool, &task)
Mutant_Dequeue(q, front, back) ==
    IF back = front \/ front = QueueSize
    THEN [ok |-> FALSE, task |-> NoTask, front |-> front]
    ELSE [ok |-> TRUE,
          task |-> q[(back + QueueSize - 1) % QueueSize],
          front |-> IF back = (front + 1) % QueueSize
                    THEN QueueSize ELSE (front + 1) % QueueSize]
Dequeue(q, front, back) ==
    IF back = front \/ front = QueueSize
    THEN [ok |-> FALSE, task |-> NoTask, front |-> front]
    ELSE [ok |-> TRUE,
          task |-> q[front],
          front |-> IF back = (front + 1) % QueueSize
                    THEN QueueSize ELSE (front + 1) % QueueSize]

\* cnd_signal(&pool->task_available): the worker it unblocks, NoWorker when no
\* worker is blocked in cnd_wait.
Signalled(w) ==
    IF \E x \in Workers : w_pc[x] = "wait"
    THEN w \in Workers /\ w_pc[w] = "wait"
    ELSE w = NoWorker

AfterSignal(w) == IF w = NoWorker THEN w_pc ELSE [w_pc EXCEPT ![w] = "woken"]

\* threadpool_init: an empty ring and nproc() detached workers; a build
\* without C11 threads has thread_count = 0 and no worker.
PoolInit ==
    /\ queue = [i \in QueueIndex |-> NoTask]
    /\ queue_front = QueueSize
    /\ queue_back = 0
    /\ thread_count \in 0..MaxWorkers
    /\ w_pc = [w \in Workers |-> IF w <= thread_count THEN "lock" ELSE "gone"]
    /\ w_task = [w \in Workers |-> NoTask]
    /\ m_pc = "idle"
    /\ submitted = 0
    /\ pending = 0
    /\ m_seen = 0
    /\ m_full = FALSE
    /\ m_outcome = "none"
    /\ m_woke = NoWorker
    /\ fifo = <<>>

\* ---- threadpool_enqueue(pool, func, arg)
\* atomic_load(&pool->thread_count) == 0
EnqueueCheck ==
    /\ m_pc = "idle"
    /\ submitted < MaxTasks
    /\ submitted' = submitted + 1
    /\ m_seen' = thread_count
    /\ m_pc' = IF thread_count = 0 THEN "e_inline" ELSE "e_enqueue"
    /\ UNCHANGED <<queue, queue_front, queue_back, thread_count, w_pc, w_task, pending,
                   m_full, m_outcome, m_woke>>
    /\ UNCHANGED pool_rest

\* !enqueue(pool, task)
EnqueueInsert ==
    /\ m_pc = "e_enqueue"
    /\ LET r == Enqueue(queue, queue_front, queue_back, TaskWork)
       IN  /\ queue' = r.queue
           /\ queue_front' = r.front
           /\ queue_back' = r.back
           /\ pending' = IF r.ok THEN pending + 1 ELSE pending
           /\ fifo' = IF r.ok THEN Append(fifo, TaskWork) ELSE fifo
           /\ m_pc' = IF r.ok THEN "e_signal" ELSE "e_inline"
    /\ m_full' = (pending = QueueSize)
    /\ UNCHANGED <<thread_count, w_pc, w_task, submitted, m_seen, m_outcome, m_woke>>
    /\ UNCHANGED pool_others

\* cnd_signal(&pool->task_available)
EnqueueSignal ==
    /\ m_pc = "e_signal"
    /\ \E w \in Workers \cup {NoWorker} :
          /\ Signalled(w)
          /\ w_pc' = AfterSignal(w)
          /\ m_woke' = w
    /\ m_outcome' = "queued"
    /\ m_pc' = "e_ret"
    /\ UNCHANGED <<queue, queue_front, queue_back, thread_count, w_task, submitted,
                   pending, m_seen, m_full>>
    /\ UNCHANGED pool_rest

\* func(arg) on the calling thread
EnqueueInline ==
    /\ m_pc = "e_inline"
    /\ m_outcome' = "inline"
    /\ m_pc' = "e_ret"
    /\ UNCHANGED <<queue, queue_front, queue_back, thread_count, w_pc, w_task, submitted,
                   pending, m_seen, m_full, m_woke>>
    /\ UNCHANGED pool_rest

\* threadpool_enqueue returns
EnqueueReturn ==
    /\ m_pc = "e_ret"
    /\ m_pc' = "idle"
    /\ m_seen' = 0
    /\ m_full' = FALSE
    /\ m_outcome' = "none"
    /\ m_woke' = NoWorker
    /\ UNCHANGED <<queue, queue_front, queue_back, thread_count, w_pc, w_task, submitted,
                   pending>>
    /\ UNCHANGED pool_rest

\* ---- threadpool_deinit(pool) and threadpool_stop(pool)
\* threadpool_deinit is called and enters threadpool_stop.
DeinitStart ==
    /\ m_pc = "idle"
    /\ m_pc' = "s_check"
    /\ UNCHANGED <<queue, queue_front, queue_back, thread_count, w_pc, w_task, submitted,
                   pending, m_seen, m_full, m_outcome, m_woke>>
    /\ UNCHANGED pool_rest

\* while (atomic_load(&pool->thread_count) > 0)
StopCheck ==
    /\ m_pc = "s_check"
    /\ m_pc' = IF thread_count > 0 THEN "s_enqueue" ELSE "s_destroy"
    /\ UNCHANGED <<queue, queue_front, queue_back, thread_count, w_pc, w_task, submitted,
                   pending, m_seen, m_full, m_outcome, m_woke>>
    /\ UNCHANGED pool_rest

\* while (!enqueue(pool, stop)) {}
StopEnqueue ==
    /\ m_pc = "s_enqueue"
    /\ LET r == Enqueue(queue, queue_front, queue_back, TaskStop)
       IN  /\ queue' = r.queue
           /\ queue_front' = r.front
           /\ queue_back' = r.back
           /\ pending' = IF r.ok THEN pending + 1 ELSE pending
           /\ fifo' = IF r.ok THEN Append(fifo, TaskStop) ELSE fifo
           /\ m_pc' = IF r.ok THEN "s_signal" ELSE "s_enqueue"
    /\ UNCHANGED <<thread_count, w_pc, w_task, submitted, m_seen, m_full, m_outcome,
                   m_woke>>
    /\ UNCHANGED pool_others

\* cnd_signal(&pool->task_available), then the outer loop test again
StopSignal ==
    /\ m_pc = "s_signal"
    /\ \E w \in Workers \cup {NoWorker} :
          /\ Signalled(w)
          /\ w_pc' = AfterSignal(w)
    /\ m_pc' = "s_check"
    /\ UNCHANGED <<queue, queue_front, queue_back, thread_count, w_task, submitted,
                   pending, m_seen, m_full, m_outcome, m_woke>>
    /\ UNCHANGED pool_rest

\* threadpool_stop has returned: mtx_destroy, cnd_destroy, free(pool)
DeinitDestroy ==
    /\ m_pc = "s_destroy"
    /\ m_pc' = "done"
    /\ UNCHANGED <<queue, queue_front, queue_back, thread_count, w_pc, w_task, submitted,
                   pending, m_seen, m_full, m_outcome, m_woke>>
    /\ UNCHANGED pool_rest

\* ---- thread_start_func(pool)
\* mtx_lock; the first dequeue_already_locked; got_task with mtx_unlock, or
\* cnd_wait, which releases the mutex.
WorkerLock(w) ==
    /\ w_pc[w] = "lock"
    /\ LET d == Dequeue(queue, queue_front, queue_back)
       IN  /\ queue_front' = d.front
           /\ w_task' = [w_task EXCEPT ![w] = d.task]
           /\ w_pc' = [w_pc EXCEPT ![w] = IF d.ok THEN "run" ELSE "wait"]
           /\ pending' = IF d.ok THEN pending - 1 ELSE pending
           /\ fifo' = IF d.ok THEN Tail(fifo) ELSE fifo
    /\ UNCHANGED <<queue, queue_back, thread_count, m_pc, submitted, m_seen, m_full,
                   m_outcome, m_woke>>
    /\ UNCHANGED pool_others

\* cnd_wait returns without a cnd_signal (a spurious wakeup).
WorkerSpuriousWake(w) ==
    /\ w_pc[w] = "wait"
    /\ w_pc' = [w_pc EXCEPT ![w] = "woken"]
    /\ UNCHANGED <<queue, queue_front, queue_back, thread_count, w_task, m_pc, submitted,
                   pending, m_seen, m_full, m_outcome, m_woke>>
    /\ UNCHANGED pool_rest

\* cnd_wait returns with the mutex held; the second dequeue_already_locked;
\* mtx_unlock, and break when nothing was dequeued.
WorkerWake(w) ==
    /\ w_pc[w] = "woken"
    /\ LET d == Dequeue(queue, queue_front, queue_back)
       IN  /\ queue_front' = d.front
           /\ w_task' = [w_task EXCEPT ![w] = d.task]
           /\ w_pc' = [w_pc EXCEPT ![w] = IF d.ok THEN "run" ELSE "exit"]
           /\ pending' = IF d.ok THEN pending - 1 ELSE pending
           /\ fifo' = IF d.ok THEN Tail(fifo) ELSE fifo
    /\ UNCHANGED <<queue, queue_back, thread_count, m_pc, submitted, m_seen, m_full,
                   m_outcome, m_woke>>
    /\ UNCHANGED pool_others

\* if (!task.func(task.arg)) break;
WorkerRun(w) ==
    /\ w_pc[w] = "run"
    /\ w_pc' = [w_pc EXCEPT ![w] = IF TaskFuncReturns(w_task[w]) THEN "lock" ELSE "exit"]
    /\ w_task' = [w_task EXCEPT ![w] = NoTask]
    /\ UNCHANGED <<queue, queue_front, queue_back, thread_count, m_pc, submitted, pending,
                   m_seen, m_full, m_outcome, m_woke>>
    /\ UNCHANGED pool_rest

\* atomic_fetch_sub(&pool->thread_count, 1); return 0;
WorkerExit(w) ==
    /\ w_pc[w] = "exit"
    /\ thread_count' = thread_count - 1
    /\ w_pc' = [w_pc EXCEPT ![w] = "gone"]
    /\ UNCHANGED <<queue, queue_front, queue_back, w_task, m_pc, submitted, pending,
                   m_seen, m_full, m_outcome, m_woke>>
    /\ UNCHANGED pool_rest

PoolNext ==
    \/ EnqueueCheck
    \/ EnqueueInsert
    \/ EnqueueSignal
    \/ EnqueueInline
    \/ EnqueueReturn
    \/ DeinitStart
    \/ StopCheck
    \/ StopEnqueue
    \/ StopSignal
    \/ DeinitDestroy
    \/ \E w \in Workers :
          \/ WorkerLock(w)
          \/ WorkerSpuriousWake(w)
          \/ WorkerWake(w)
          \/ WorkerRun(w)
          \/ WorkerExit(w)

-----------------------------------------------------------------------------
(* Move generation: generate_move, movegen_task, negamax_from_root and the  *)
(* game loop that reads the result                                          *)

\* Number of root searches generate_move starts (MAX_SEARCH_DEPTH, 32 in
\* config.h, scaled down).
MaxSearchDepth == 5

\* Greatest number of tasks the pool's workers run at the same time.
SearchWorkers == 2

\* The hash of the position generate_move is called for.
RootHash == 1

\* The hash of the position an earlier generate_move call was made for.
EarlierHash == 2

\* Number of plies after which a line of the search is back at the root
\* position (both sides move a piece out and back).
RepetitionPly == 4

\* Number of legal moves of the root position.
RootMoveCount == 2

CHAR_MAX == 127

Depths == 1..MaxSearchDepth

\* generate_move consults the opening book while state->move_count <= 5.
BookPhase(move_count) == move_count <= 5

\* The legal moves of the root position.
RootMoves == { Move(BoardPos(i, 1), BoardPos(i, 2)) : i \in 1..RootMoveCount }

\* A move the book lists for a position of the same hash that is not legal in
\* the root position.
CollisionMove == Move(BoardPos(0, 6), BoardPos(0, 3))

\* is_move_legal(state, move) for the root position.
is_root_move_legal(move) == move \in RootMoves

\* What find_opening_by_hash(state->hash) gives generate_move, as the set of
\* moves of the item returned ({} for NULL), when the book's entry for the hash
\* has the moves `entry` ({}: the book has no entry).  Without an entry the
\* result is NULL, unless the hash is below the hash of items[0]: the binary
\* search then leaves the array (BinarySearchStep) and returns NULL or whatever
\* it reads as an item, or faults (FindOpeningFaults).
find_opening_results(entry) ==
    IF entry /= {} THEN {entry}
    ELSE {{}} \cup { {move} : move \in RootMoves \cup {CollisionMove} }

\* The positions generate_move is called for: the last ply of the book phase
\* with and without a book entry, and the first ply after it.
GenerateMoveInputs ==
    { [move_count |-> 5, opening |-> RootMoves \cup {CollisionMove}],
      [move_count |-> 5, opening |-> {}],
      [move_count |-> 6, opening |-> RootMoves] }

\* tptable_get(hash) as one step (the calls are serialised by the mutex).
TableGet(table, hash) ==
    IF table[SlotOf(hash)].hash /= hash THEN NullEntry ELSE table[SlotOf(hash)]

\* tptable_put(entry) as one step.
TablePut(table, entry, protected) ==
    IF PutReplaces(table[SlotOf(entry.hash)], entry, protected)
    THEN [table EXCEPT ![SlotOf(entry.hash)] = entry]
    ELSE table

\* tptable_set_protected_hash(hash) as one step: the table after it.
TableProtect(table, hash) ==
    IF table[SlotOf(hash)].hash /= hash
    THEN [table EXCEPT ![SlotOf(hash)] = SeedEntry(table[SlotOf(hash)], hash)]
    ELSE table

\* acnt_init(MAX_SEARCH_DEPTH)
Mutant_AcntInit == MaxSearchDepth - 1
AcntInit == MaxSearchDepth

\* acnt_dec: atomic_fetch_sub(&counter->count, 1) == 1
AcntDecIsZero(old) == old = 1

\* The depth of the node of the search of depth d that is at the root position
\* again.
NodeDepth(d) == d - RepetitionPly

\* The TT lookup of negamax returns the stored value at once.
NodeCutsOff(e, depth, cutoff) ==
    /\ e.depth /= 0
    /\ e.depth >= depth
    /\ (e.type = EntryTypeExact \/ cutoff)

Origin(kind, depth) == [kind |-> kind, depth |-> depth]

\* The origin of the slot after a put by the given writer.
OriginAfter(table, entry, protected, kind) ==
    IF PutReplaces(table[SlotOf(entry.hash)], entry, protected)
    THEN Origin(kind, entry.depth)
    ELSE slot_origin

Max(S) == CHOOSE x \in S : \A y \in S : y <= x

CompletedDepths == { d \in Depths : task_outcome[d] = "completed" }

DeepestCompleted == IF CompletedDepths = {} THEN 0 ELSE Max(CompletedDepths)

SearchInit ==
    /\ g_pc = "idle"
    /\ next_depth = 0
    /\ inline_task = 0
    /\ elapsed = FALSE
    /\ task_status = [d \in Depths |-> "new"]
    /\ task_outcome = [d \in Depths |-> "none"]
    /\ node_done = [d \in Depths |-> FALSE]
    /\ refcount = 0
    /\ freed = 0
    /\ slot_origin = Origin("zero", 0)
    /\ played = ZeroEntry
    /\ played_origin = Origin("zero", 0)
    /\ seen_completed = 0
    /\ root_move_count = 0
    /\ opening = {}
    /\ book_move = NULL_MOVE

\* The move generation for an earlier move of the game: generate_move protected
\* the hash of that position, and a negamax node of its search stored an entry
\* under the hash of the position that is the root now.  The node was at that
\* position, or at another position of the same 64-bit hash, whose best move
\* is CollisionMove: the table keeps the hash of a position, not the position.
EarlierSearchPut ==
    /\ g_pc = "idle"
    /\ slot_origin.kind = "zero"
    /\ protected_hash' = EarlierHash
    /\ \E m \in RootMoves \cup {CollisionMove}, d \in Depths,
          ty \in {EntryTypeExact, EntryTypeUpper} :
          LET e == TranspositionEntry(RootHash, m, d, ValueOf(RootHash, d), ty)
              t == TableProtect(tp_table, EarlierHash)
          IN  /\ tp_table' = TablePut(t, e, EarlierHash)
              /\ slot_origin' = OriginAfter(t, e, EarlierHash, "earlier")
    /\ UNCHANGED <<g_pc, next_depth, inline_task, elapsed, task_status,
                   task_outcome, node_done, refcount, freed, played, played_origin,
                   seen_completed>>
    /\ UNCHANGED <<movegen_vars, search_rest>>

\* game_loop: movegen_started == 0; generate_move is called for a position and
\* begins with tptable_set_protected_hash(state->hash).
GenerateMoveStart ==
    /\ g_pc = "idle"
    /\ protected_hash' = RootHash
    /\ tp_table' = TableProtect(tp_table, RootHash)
    /\ slot_origin' = IF tp_table[SlotOf(RootHash)].hash /= RootHash
                      THEN Origin("seed", 0) ELSE slot_origin
    /\ \E call \in GenerateMoveInputs :
          /\ root_move_count' = call.move_count
          /\ opening' = call.opening
    /\ g_pc' = "book"
    /\ UNCHANGED <<next_depth, inline_task, elapsed, task_status, task_outcome, node_done,
                   refcount, freed, played, played_origin, seen_completed, book_move>>
    /\ UNCHANGED search_rest

\* find_opening_by_hash returns an item and the move picked from it is legal:
\* it is stored with depth CHAR_MAX and generate_move returns.
BookMove ==
    /\ g_pc = "book"
    /\ BookPhase(root_move_count)
    /\ \E found \in find_opening_results(opening) :
          /\ found /= {}
          /\ \E move \in found :
                /\ is_root_move_legal(move)
                /\ book_move' = move
                /\ LET entry == TranspositionEntry(RootHash, move, CHAR_MAX, 0, EntryTypeExact)
                   IN  /\ tp_table' = TablePut(tp_table, entry, protected_hash)
                       /\ slot_origin' = OriginAfter(tp_table, entry, protected_hash, "book")
    /\ g_pc' = "started"
    /\ UNCHANGED <<protected_hash, next_depth, inline_task, elapsed, task_status,
                   task_outcome, node_done, refcount, freed, played, played_origin,
                   seen_completed, root_move_count, opening>>
    /\ UNCHANGED search_rest

\* No book move (the move count is past the book phase, find_opening_by_hash
\* returns NULL, or the move picked is not legal): copy_gamestate,
\* all_legal_moves_ordered, acnt_init.
NoBookMove ==
    /\ g_pc = "book"
    /\ \/ /\ ~BookPhase(root_move_count)
          /\ book_move' = NULL_MOVE
       \/ /\ BookPhase(root_move_count)
          /\ \E found \in find_opening_results(opening) :
                \/ /\ found = {}
                   /\ book_move' = NULL_MOVE
                \/ \E move \in found :
                      /\ ~is_root_move_legal(move)
                      /\ book_move' = move
    /\ refcount' = AcntInit
    /\ next_depth' = 1
    /\ g_pc' = "enqueue"
    /\ UNCHANGED <<tp_table, protected_hash, inline_task, elapsed, task_status,
                   task_outcome, node_done, freed, slot_origin, played, played_origin,
                   seen_completed, root_move_count, opening>>
    /\ UNCHANGED search_rest

\* find_opening_by_hash(state->hash) for a hash below the hash of items[0]:
\* the read of items[mid] outside the array faults, or the search never ends.
FindOpeningFaults ==
    /\ g_pc = "book"
    /\ BookPhase(root_move_count)
    /\ opening = {}
    /\ g_pc' = "crashed"
    /\ UNCHANGED <<tp_table, protected_hash, next_depth, inline_task, elapsed, task_status,
                   task_outcome, node_done, refcount, freed, slot_origin, played,
                   played_origin, seen_completed>>
    /\ UNCHANGED <<movegen_vars, search_rest>>

\* threadpool_enqueue(pool, movegen_task, arg) puts the task of next_depth in
\* the queue; depth++.
EnqueueQueued ==
    /\ g_pc = "enqueue"
    /\ task_status' = [task_status EXCEPT ![next_depth] = "queued"]
    /\ next_depth' = next_depth + 1
    /\ g_pc' = IF next_depth = MaxSearchDepth THEN "started" ELSE "enqueue"
    /\ UNCHANGED <<tp_table, protected_hash, inline_task, elapsed, task_outcome, node_done,
                   refcount, freed, slot_origin, played, played_origin, seen_completed>>
    /\ UNCHANGED <<movegen_vars, search_rest>>

\* threadpool_enqueue runs movegen_task(arg) on the calling thread.
EnqueueRunsInline ==
    /\ g_pc = "enqueue"
    /\ task_status' = [task_status EXCEPT ![next_depth] = "running"]
    /\ inline_task' = next_depth
    /\ g_pc' = "inline"
    /\ UNCHANGED <<tp_table, protected_hash, next_depth, elapsed, task_outcome, node_done,
                   refcount, freed, slot_origin, played, played_origin, seen_completed>>
    /\ UNCHANGED <<movegen_vars, search_rest>>

\* The inline movegen_task has returned; depth++.
InlineReturns ==
    /\ g_pc = "inline"
    /\ task_status[inline_task] = "done"
    /\ inline_task' = 0
    /\ next_depth' = next_depth + 1
    /\ g_pc' = IF next_depth = MaxSearchDepth THEN "started" ELSE "enqueue"
    /\ UNCHANGED <<tp_table, protected_hash, elapsed, task_status, task_outcome, node_done,
                   refcount, freed, slot_origin, played, played_origin, seen_completed>>
    /\ UNCHANGED <<movegen_vars, search_rest>>

\* MAX_MOVEGEN_SEARCH_TIME seconds have passed since movegen_started.
TimeElapses ==
    /\ g_pc \notin {"idle", "played"}
    /\ ~elapsed
    /\ elapsed' = TRUE
    /\ UNCHANGED <<tp_table, protected_hash, g_pc, next_depth, inline_task, task_status,
                   task_outcome, node_done, refcount, freed, slot_origin, played,
                   played_origin, seen_completed>>
    /\ UNCHANGED <<movegen_vars, search_rest>>

\* game_loop: entry = tptable_get(hash); the move generation is over when
\* entry.depth == CHAR_MAX or the time has elapsed, and entry.best_move is
\* played.
GameLoopReads ==
    /\ g_pc = "started"
    /\ LET entry == TableGet(tp_table, RootHash)
       IN  /\ entry.depth = CHAR_MAX \/ elapsed
           /\ played' = entry
    /\ played_origin' = slot_origin
    /\ seen_completed' = DeepestCompleted
    /\ g_pc' = "played"
    /\ UNCHANGED <<tp_table, protected_hash, next_depth, inline_task, elapsed, task_status,
                   task_outcome, node_done, refcount, freed, slot_origin>>
    /\ UNCHANGED <<movegen_vars, search_rest>>

\* A worker dequeues the oldest task and calls movegen_task.
TaskStart(d) ==
    /\ task_status[d] = "queued"
    /\ \A x \in Depths : task_status[x] = "queued" => d <= x
    /\ Cardinality({ x \in Depths : x /= inline_task /\
                       task_status[x] \in {"running", "node", "dec", "free"} })
          < SearchWorkers
    /\ task_status' = [task_status EXCEPT ![d] = "running"]
    /\ UNCHANGED <<tp_table, protected_hash, g_pc, next_depth, inline_task, elapsed,
                   task_outcome, node_done, refcount, freed, slot_origin, played,
                   played_origin, seen_completed>>
    /\ UNCHANGED <<movegen_vars, search_rest>>

\* negamax reaches the root position again, NodeDepth(d) >= 1 plies above its
\* horizon: the TT lookup, then either the stored value is returned or the
\* node is searched.
NodeEnter(d) ==
    /\ task_status[d] = "running"
    /\ ~node_done[d]
    /\ NodeDepth(d) >= 1
    /\ \E cutoff \in BOOLEAN :
          IF NodeCutsOff(TableGet(tp_table, RootHash), NodeDepth(d), cutoff)
          THEN /\ node_done' = [node_done EXCEPT ![d] = TRUE]
               /\ task_status' = task_status
          ELSE /\ node_done' = node_done
               /\ task_status' = [task_status EXCEPT ![d] = "node"]
    /\ UNCHANGED <<tp_table, protected_hash, g_pc, next_depth, inline_task, elapsed,
                   task_outcome, refcount, freed, slot_origin, played, played_origin,
                   seen_completed>>
    /\ UNCHANGED <<movegen_vars, search_rest>>

\* The node at the root position has searched its moves: tptable_put(tp_entry).
NodeFinish(d) ==
    /\ task_status[d] = "node"
    /\ \E m \in RootMoves, ty \in {EntryTypeExact, EntryTypeUpper, EntryTypeLower} :
          LET e == TranspositionEntry(RootHash, m, NodeDepth(d),
                                      ValueOf(RootHash, NodeDepth(d)), ty)
          IN  /\ tp_table' = TablePut(tp_table, e, protected_hash)
              /\ slot_origin' = OriginAfter(tp_table, e, protected_hash, "node")
    /\ node_done' = [node_done EXCEPT ![d] = TRUE]
    /\ task_status' = [task_status EXCEPT ![d] = "running"]
    /\ UNCHANGED <<protected_hash, g_pc, next_depth, inline_task, elapsed, task_outcome,
                   refcount, freed, played, played_origin, seen_completed>>
    /\ UNCHANGED <<movegen_vars, search_rest>>

\* A time check of negamax finds the time elapsed: INT_MIN is returned up to
\* negamax_from_root, which returns without storing anything.
TaskAbort(d) ==
    /\ task_status[d] \in {"running", "node"}
    /\ elapsed
    /\ task_outcome' = [task_outcome EXCEPT ![d] = "aborted"]
    /\ task_status' = [task_status EXCEPT ![d] = "dec"]
    /\ UNCHANGED <<tp_table, protected_hash, g_pc, next_depth, inline_task, elapsed,
                   node_done, refcount, freed, slot_origin, played, played_origin,
                   seen_completed>>
    /\ UNCHANGED <<movegen_vars, search_rest>>

\* negamax_from_root has evaluated every move: the Exact entry of its depth is
\* given to tptable_put.
TaskFinish(d) ==
    /\ task_status[d] = "running"
    /\ \E m \in RootMoves :
          LET e == TranspositionEntry(RootHash, m, d, ValueOf(RootHash, d), EntryTypeExact)
          IN  /\ tp_table' = TablePut(tp_table, e, protected_hash)
              /\ slot_origin' = OriginAfter(tp_table, e, protected_hash, "root")
    /\ task_outcome' = [task_outcome EXCEPT ![d] = "completed"]
    /\ task_status' = [task_status EXCEPT ![d] = "dec"]
    /\ UNCHANGED <<protected_hash, g_pc, next_depth, inline_task, elapsed, node_done,
                   refcount, freed, played, played_origin, seen_completed>>
    /\ UNCHANGED <<movegen_vars, search_rest>>

\* movegen_task: acnt_dec(arg->refcount)
TaskDec(d) ==
    /\ task_status[d] = "dec"
    /\ refcount' = refcount - 1
    /\ task_status' = [task_status EXCEPT ![d] =
                          IF AcntDecIsZero(refcount) THEN "free" ELSE "done"]
    /\ UNCHANGED <<tp_table, protected_hash, g_pc, next_depth, inline_task, elapsed,
                   task_outcome, node_done, freed, slot_origin, played, played_origin,
                   seen_completed>>
    /\ UNCHANGED <<movegen_vars, search_rest>>

\* movegen_task: free(arg->state); free(arg->legal_moves);
TaskFree(d) ==
    /\ task_status[d] = "free"
    /\ freed' = freed + 1
    /\ task_status' = [task_status EXCEPT ![d] = "done"]
    /\ UNCHANGED <<tp_table, protected_hash, g_pc, next_depth, inline_task, elapsed,
                   task_outcome, node_done, refcount, slot_origin, played, played_origin,
                   seen_completed>>
    /\ UNCHANGED <<movegen_vars, search_rest>>

SearchNext ==
    \/ EarlierSearchPut
    \/ GenerateMoveStart
    \/ BookMove
    \/ NoBookMove
    \/ FindOpeningFaults
    \/ EnqueueQueued
    \/ EnqueueRunsInline
    \/ InlineReturns
    \/ TimeElapses
    \/ GameLoopReads
    \/ \E d \in Depths :
          \/ TaskStart(d)
          \/ NodeEnter(d)
          \/ NodeFinish(d)
          \/ TaskAbort(d)
          \/ TaskFinish(d)
          \/ TaskDec(d)
          \/ TaskFree(d)

-----------------------------------------------------------------------------
(* Position model (chess.h, chess.c)                                        *)

\* enum PieceType
Empty == 0
King == 1
Queen == 2
Rook == 3
Bishop == 4
Knight == 5
Pawn == 6

\* enum Player
WhitePlayer == 0
BlackPlayer == 1

Players == {WhitePlayer, BlackPlayer}

\* The valid board positions: file and rank in 0 .. 7.
Squares == (0 .. 7) \X (0 .. 7)

abs(x) == IF x < 0 THEN -x ELSE x

MIN(a, b) == IF a < b THEN a ELSE b

MAX(a, b) == IF a > b THEN a ELSE b

boardpos_eq(a, b) == a = b

boardpos_add(a, b) ==
    LET r == <<a[1] + b[1], a[2] + b[2]>>
    IN  IF r[1] > 7 \/ r[2] > 7 \/ r[1] < 0 \/ r[2] < 0 THEN NULL_BOARDPOS ELSE r

Piece(type, player) == [type |-> type, player |-> player]

put_piece(state, piece, pos) == [state EXCEPT !.board[pos] = piece]

get_piece(state, pos) == state.board[pos]

get_enpassant_target_file(state, player) ==
    IF player = WhitePlayer THEN state.enpassant_target_white
    ELSE state.enpassant_target_black

\* A variant that leaves the target file in place.
Mutant_unset_enpassant_target_file(state, attacking_player) == state

unset_enpassant_target_file(state, attacking_player) ==
    IF attacking_player = WhitePlayer THEN [state EXCEPT !.enpassant_target_white = -1]
    ELSE [state EXCEPT !.enpassant_target_black = -1]

unset_castlert_left(state, player) ==
    IF player = WhitePlayer THEN [state EXCEPT !.white_castlert_left = FALSE]
    ELSE [state EXCEPT !.black_castlert_left = FALSE]

unset_castlert_right(state, player) ==
    IF player = WhitePlayer THEN [state EXCEPT !.white_castlert_right = FALSE]
    ELSE [state EXCEPT !.black_castlert_right = FALSE]

set_king_pos(state, player, pos) ==
    IF player = WhitePlayer THEN [state EXCEPT !.white_king = pos]
    ELSE [state EXCEPT !.black_king = pos]

get_king_pos(state, player) ==
    IF player = WhitePlayer THEN state.white_king ELSE state.black_king

is_player_in_check(state, player) ==
    IF player = WhitePlayer THEN state.white_king_in_check ELSE state.black_king_in_check

other_player(player) == IF player = WhitePlayer THEN BlackPlayer ELSE WhitePlayer

\* Every entry of the player's piece list equal to `from` becomes `to`.
change_piece_list_pos(state, player, from, to) ==
    IF player = WhitePlayer
    THEN [state EXCEPT !.piece_list_white =
            [i \in 0 .. 15 |-> IF boardpos_eq(from, @[i]) THEN to ELSE @[i]]]
    ELSE [state EXCEPT !.piece_list_black =
            [i \in 0 .. 15 |-> IF boardpos_eq(from, @[i]) THEN to ELSE @[i]]]

move_piece(state, from, to) ==
    put_piece(put_piece(state, get_piece(state, from), to), Piece(Empty, WhitePlayer), from)

\* The digest of a position.  The digest XORs one constant per (square, piece
\* kind, colour) on the board, per castling right held, per en-passant file
\* and for the side to move; it is kept here as the set of the constants that
\* are XORed in, which is equal for two positions exactly when their digests
\* are (collisions of the 64-bit constants aside).  The digest 0 is the empty
\* set.
ZeroHash == {}

hash_state(state) ==
    LET ep_white == IF state.enpassant_target_white = -1 THEN {}
                    ELSE {<<"enpassant", state.enpassant_target_white, 0, 0>>}
        ep_black == IF state.enpassant_target_black = -1 THEN {}
                    ELSE {<<"enpassant", state.enpassant_target_black, 0, 0>>}
    IN  { <<"piece", sq[1], sq[2], 2 * state.board[sq].type + state.board[sq].player>> :
            sq \in {s \in Squares : state.board[s].type # Empty} }
        \cup (IF state.white_castlert_left THEN {<<"castle", 0, 0, 0>>} ELSE {})
        \cup (IF state.white_castlert_right THEN {<<"castle", 1, 0, 0>>} ELSE {})
        \cup (IF state.black_castlert_left THEN {<<"castle", 2, 0, 0>>} ELSE {})
        \cup (IF state.black_castlert_right THEN {<<"castle", 3, 0, 0>>} ELSE {})
        \cup ((ep_white \cup ep_black) \ (ep_white \cap ep_black))
        \cup (IF state.white_to_move THEN {} ELSE {<<"side", 0, 0, 0>>})

\* Order of pieces on the initial chess board, excluding pawns (indexed from 0).
PIECES_ORDER == [i \in 0 .. 7 |->
                    <<Rook, Knight, Bishop, Queen, King, Bishop, Knight, Rook>>[i + 1]]

\* The board and the piece lists after clear_board: memset 0 gives every square
\* the piece {Empty, WhitePlayer}.
clear_board ==
    [board |-> [sq \in Squares |-> Piece(Empty, WhitePlayer)],
     piece_list_white |-> [i \in 0 .. 15 |-> NULL_BOARDPOS],
     piece_list_black |-> [i \in 0 .. 15 |-> NULL_BOARDPOS],
     white_king |-> NULL_BOARDPOS,
     black_king |-> NULL_BOARDPOS]

init_gamestate ==
    LET state ==
          [board |-> [sq \in Squares |->
                        CASE sq[2] = 1 -> Piece(Pawn, BlackPlayer)
                          [] sq[2] = 6 -> Piece(Pawn, WhitePlayer)
                          [] sq[2] = 0 -> Piece(PIECES_ORDER[sq[1]], BlackPlayer)
                          [] sq[2] = 7 -> Piece(PIECES_ORDER[sq[1]], WhitePlayer)
                          [] OTHER -> clear_board.board[sq]],
           white_to_move |-> TRUE,
           enpassant_target_white |-> -1,
           enpassant_target_black |-> -1,
           white_castlert_left |-> TRUE,
           white_castlert_right |-> TRUE,
           black_castlert_left |-> TRUE,
           black_castlert_right |-> TRUE,
           white_king |-> BoardPos(4, 7),
           black_king |-> BoardPos(4, 0),
           white_king_in_check |-> FALSE,
           black_king_in_check |-> FALSE,
           move_count |-> 0,
           piece_list_white |-> [i \in 0 .. 15 |->
                                   IF i >= 8 THEN BoardPos(i - 8, 6) ELSE BoardPos(i, 7)],
           piece_list_black |-> [i \in 0 .. 15 |->
                                   IF i >= 8 THEN BoardPos(i - 8, 1) ELSE BoardPos(i, 0)],
           hash |-> ZeroHash]
    IN  [state EXCEPT !.hash = hash_state(state)]

-----------------------------------------------------------------------------
(* Rules of movement (engine.c)                                             *)

\* All move directions a white piece can make, indexed by the piece id (the C
\* array is indexed by piece id - 1 and from 0).  NULL_BOARDPOS ends a list.
PIECE_MOVE_DIRECTIONS ==
    [t \in 1 .. 6 |->
        CASE t = Queen  -> << <<0, 1>>, <<1, 1>>, <<1, 0>>, <<0, -1>>,
                              <<-1, -1>>, <<-1, 0>>, <<-1, 1>>, <<1, -1>> >>
          [] t = King   -> << <<0, 1>>, <<1, 1>>, <<1, 0>>, <<0, -1>>,
                              <<-1, -1>>, <<-1, 0>>, <<-1, 1>>, <<1, -1>> >>
          [] t = Rook   -> << <<0, 1>>, <<0, -1>>, <<-1, 0>>, <<1, 0>>,
                              NULL_BOARDPOS, NULL_BOARDPOS, NULL_BOARDPOS, NULL_BOARDPOS >>
          [] t = Bishop -> << <<1, 1>>, <<-1, -1>>, <<1, -1>>, <<-1, 1>>,
                              NULL_BOARDPOS, NULL_BOARDPOS, NULL_BOARDPOS, NULL_BOARDPOS >>
          [] t = Knight -> << <<2, 1>>, <<2, -1>>, <<-2, 1>>, <<-2, -1>>,
                              <<1, 2>>, <<-1, 2>>, <<1, -2>>, <<-1, -2>> >>
          [] t = Pawn   -> << <<1, -1>>, <<-1, -1>>, <<0, -1>>, <<0, -2>>,
                              NULL_BOARDPOS, NULL_BOARDPOS, NULL_BOARDPOS, NULL_BOARDPOS >>]

\* The directions of a piece type a loop visits before it meets NULL_BOARDPOS.
Directions(type) ==
    { PIECE_MOVE_DIRECTIONS[type][i] :
        i \in { j \in 1 .. 8 :
                  \A k \in 1 .. j : ~boardpos_eq(PIECE_MOVE_DIRECTIONS[type][k], NULL_BOARDPOS) } }

ROOK_STARTING_POSITIONS_LEFT ==
    [p \in Players |-> IF p = WhitePlayer THEN BoardPos(0, 7) ELSE BoardPos(0, 0)]

ROOK_STARTING_POSITIONS_RIGHT ==
    [p \in Players |-> IF p = WhitePlayer THEN BoardPos(7, 7) ELSE BoardPos(7, 0)]

KING_STARTING_POSITIONS ==
    [p \in Players |-> IF p = WhitePlayer THEN BoardPos(4, 7) ELSE BoardPos(4, 0)]

\* The k-th square from pos in a direction (off the board when boardpos_add
\* has returned NULL_BOARDPOS on the way).
Step(pos, translation, k) == <<pos[1] + k * translation[1], pos[2] + k * translation[2]>>

is_piece_attacked(state, attackee_pos, attacker) ==
    LET attackee_piece == get_piece(state, attackee_pos)
        \* the while loop along one translation: it runs to the first square
        \* that is not Empty and answers for the piece found there
        ray(translation) ==
            LET is_diagonal == abs(translation[1]) = abs(translation[2])
                is_king == abs(translation[1]) <= 1 /\ abs(translation[2]) <= 1
            IN  \E k \in 1 .. 7 :
                   /\ Step(attackee_pos, translation, k) \in Squares
                   /\ \A j \in 1 .. (k - 1) :
                         get_piece(state, Step(attackee_pos, translation, j)).type = Empty
                   /\ LET check_piece == get_piece(state, Step(attackee_pos, translation, k))
                          correct_piece ==
                              \/ check_piece.type = Queen
                              \/ (is_king /\ check_piece.type = King)
                              \/ (is_diagonal /\ check_piece.type = Bishop)
                              \/ (~is_diagonal /\ check_piece.type = Rook)
                      IN  /\ check_piece.type # Empty
                          /\ correct_piece
                          /\ check_piece.player = attacker
        pawn(d) ==
            LET direction == IF attackee_piece.player = BlackPlayer
                             THEN <<-d[1], -d[2]>> ELSE d
                check == boardpos_add(attackee_pos, direction)
            IN  /\ d[1] # 0
                /\ ~boardpos_eq(check, NULL_BOARDPOS)
                /\ get_piece(state, check).type = Pawn
                /\ get_piece(state, check).player = attacker
        knight(direction) ==
            LET check == boardpos_add(attackee_pos, direction)
            IN  /\ ~boardpos_eq(check, NULL_BOARDPOS)
                /\ get_piece(state, check).type = Knight
                /\ get_piece(state, check).player = attacker
    IN  \/ \E i \in 1 .. 8 : ray(PIECE_MOVE_DIRECTIONS[Queen][i])
        \/ \E d \in Directions(Pawn) : pawn(d)
        \/ \E d \in Directions(Knight) : knight(d)

is_state_legal(state) ==
    LET last_move == IF state.white_to_move THEN BlackPlayer ELSE WhitePlayer
    IN  ~is_player_in_check(state, last_move)

\* The piece put on move.to: if the move is a promotion the new piece is a
\* queen.
Mutant_new_piece(from_piece, move) == from_piece
new_piece(from_piece, move) ==
    IF from_piece.type = Pawn /\ (move.to[2] = 0 \/ move.to[2] = 7)
    THEN Piece(Queen, from_piece.player)
    ELSE from_piece

\* The hash make_move leaves: the digest of the new state if needed, else 0.
Mutant_calculated_hash(state, calculate_hash) == ZeroHash
calculated_hash(state, calculate_hash) ==
    IF calculate_hash THEN hash_state(state) ELSE ZeroHash

\* out->white_king_in_check and out->black_king_in_check are computed anew.
with_white_king_in_check(out) ==
    [out EXCEPT !.white_king_in_check = is_piece_attacked(out, out.white_king, BlackPlayer)]

with_black_king_in_check(out) ==
    [out EXCEPT !.black_king_in_check = is_piece_attacked(out, out.black_king, WhitePlayer)]

\* make_move, the if / else-if chain on the kind of move.
castled_rook(king_rights, move, player) ==
    IF boardpos_eq(move.from, KING_STARTING_POSITIONS[player])
    THEN IF move.to[1] = 2
         THEN change_piece_list_pos(
                 move_piece(king_rights, BoardPos(0, move.from[2]), BoardPos(3, move.from[2])),
                 player, BoardPos(0, move.from[2]), BoardPos(3, move.from[2]))
         ELSE IF move.to[1] = 6
         THEN change_piece_list_pos(
                 put_piece(put_piece(king_rights, Piece(Empty, WhitePlayer),
                                     BoardPos(7, move.from[2])),
                           Piece(Rook, player), BoardPos(5, move.from[2])),
                 player, BoardPos(7, move.from[2]), BoardPos(5, move.from[2]))
         ELSE king_rights
    ELSE king_rights

move_kind(state, move, from_piece, to_piece) ==
    IF from_piece.type = Pawn
    THEN IF abs(move.from[2] - move.to[2]) = 2
         THEN IF from_piece.player = WhitePlayer
              THEN [state EXCEPT !.enpassant_target_black = move.from[1]]
              ELSE [state EXCEPT !.enpassant_target_white = move.from[1]]
         ELSE unset_enpassant_target_file(
                 IF move.from[1] # move.to[1] /\ to_piece.type = Empty
                 THEN change_piece_list_pos(
                         put_piece(state, Piece(Empty, WhitePlayer),
                                   BoardPos(move.to[1], move.from[2])),
                         other_player(from_piece.player), BoardPos(move.to[1], move.from[2]),
                         NULL_BOARDPOS)
                 ELSE state,
                 other_player(from_piece.player))
    ELSE IF from_piece.type = Rook
            /\ (\/ boardpos_eq(move.from, ROOK_STARTING_POSITIONS_LEFT[from_piece.player])
                \/ boardpos_eq(move.from, ROOK_STARTING_POSITIONS_RIGHT[from_piece.player]))
    THEN IF move.from[1] = 0 THEN unset_castlert_left(state, from_piece.player)
         ELSE IF move.from[1] = 7 THEN unset_castlert_right(state, from_piece.player)
         ELSE state
    ELSE IF to_piece.type = Rook
            /\ (\/ boardpos_eq(move.to, ROOK_STARTING_POSITIONS_LEFT[to_piece.player])
                \/ boardpos_eq(move.to, ROOK_STARTING_POSITIONS_RIGHT[to_piece.player]))
    THEN IF move.to[1] = 0 THEN unset_castlert_left(state, to_piece.player)
         ELSE IF move.to[1] = 7 THEN unset_castlert_right(state, to_piece.player)
         ELSE state
    ELSE IF from_piece.type = King
    THEN set_king_pos(
            castled_rook(unset_castlert_right(unset_castlert_left(state, from_piece.player),
                                              from_piece.player),
                         move, from_piece.player),
            from_piece.player, move.to)
    ELSE state

\* make_move, the piece lists: the moved piece, then the captured one.
move_in_piece_lists(state, move, from_piece, to_piece) ==
    IF to_piece.type # Empty
    THEN change_piece_list_pos(
            change_piece_list_pos(state, from_piece.player, move.from, move.to),
            to_piece.player, move.to, NULL_BOARDPOS)
    ELSE change_piece_list_pos(state, from_piece.player, move.from, move.to)

\* make_move, the end: the move is counted, the turn passes, the hash is set.
count_move(state) == [state EXCEPT !.move_count = @ + 1, !.white_to_move = ~@]

with_calculated_hash(state, calculate_hash) ==
    [state EXCEPT !.hash = calculated_hash(state, calculate_hash)]

move_of_piece(state, move, calculate_hash, from_piece, to_piece) ==
    with_calculated_hash(
       count_move(
          with_white_king_in_check(
             with_black_king_in_check(
                put_piece(
                   put_piece(
                      unset_enpassant_target_file(
                         move_in_piece_lists(move_kind(state, move, from_piece, to_piece),
                                             move, from_piece, to_piece),
                         from_piece.player),
                      new_piece(from_piece, move), move.to),
                   Piece(Empty, WhitePlayer), move.from)))),
       calculate_hash)

make_move(state, move, calculate_hash) ==
    move_of_piece(state, move, calculate_hash, get_piece(state, move.from),
                  get_piece(state, move.to))

is_move_possible(state, move) ==
    LET from_piece == get_piece(state, move.from)
        to_piece == get_piece(state, move.to)
        from_file == move.from[1]
        from_rank == move.from[2]
        to_file == move.to[1]
        to_rank == move.to[2]
        is_castle == /\ from_rank = to_rank
                     /\ (to_file = 6 \/ to_file = 2)
                     /\ boardpos_eq(move.from, KING_STARTING_POSITIONS[from_piece.player])
        \* the files the castling loop visits: 4, 5, 6 or 4, 3, 2, 1
        castle_files == IF to_file = 6 THEN 4 .. 6 ELSE 1 .. 4
        castle_clear ==
            \A i \in castle_files :
               /\ ~(get_piece(state, BoardPos(i, from_rank)).type # Empty /\ i # 4)
               /\ ~(i # 1 /\ is_piece_attacked(state, BoardPos(i, from_rank),
                                               other_player(from_piece.player)))
        file_add == IF from_file > to_file THEN -1 ELSE 1
        rank_add == IF from_rank > to_rank THEN -1 ELSE 1
        direction == IF from_piece.player = BlackPlayer THEN 1 ELSE -1
    IN  IF to_piece.type # Empty /\ from_piece.player = to_piece.player THEN FALSE
        ELSE CASE from_piece.type = King ->
                    IF abs(from_file - to_file) <= 1 /\ abs(from_rank - to_rank) <= 1
                    THEN TRUE
                    ELSE is_castle /\ castle_clear
               [] from_piece.type \in {Queen, Rook, Bishop} ->
                    IF from_file = to_file
                    THEN /\ from_piece.type # Bishop
                         /\ \A i \in (MIN(from_rank, to_rank) + 1) .. (MAX(from_rank, to_rank) - 1) :
                               get_piece(state, BoardPos(from_file, i)).type = Empty
                    ELSE IF from_rank = to_rank
                    THEN /\ from_piece.type # Bishop
                         /\ \A i \in (MIN(from_file, to_file) + 1) .. (MAX(from_file, to_file) - 1) :
                               get_piece(state, BoardPos(i, from_rank)).type = Empty
                    ELSE IF abs(from_file - to_file) = abs(from_rank - to_rank)
                    THEN /\ from_piece.type # Rook
                         /\ \A k \in 1 .. (abs(from_file - to_file) - 1) :
                               get_piece(state, BoardPos(from_file + k * file_add,
                                                         from_rank + k * rank_add)).type = Empty
                    ELSE FALSE
               [] from_piece.type = Knight ->
                    \/ (abs(from_file - to_file) = 2 /\ abs(from_rank - to_rank) = 1)
                    \/ (abs(from_file - to_file) = 1 /\ abs(from_rank - to_rank) = 2)
               [] from_piece.type = Pawn ->
                    \/ (to_rank - from_rank = direction /\ abs(from_file - to_file) <= 1)
                    \/ (to_rank - from_rank = 2 * direction /\ from_file = to_file)
               [] OTHER -> FALSE

\* The tests is_move_legal makes on the position before it tries the move.
follows_move_rules(state, move) ==
    LET from_piece == get_piece(state, move.from)
        to_piece == get_piece(state, move.to)
        max_rank == MAX(move.to[2], move.from[2])
        pawn_ok ==
            IF move.from[1] # move.to[1]
            THEN ~(/\ to_piece.type = Empty
                   /\ \/ (from_piece.player = WhitePlayer /\ move.from[2] # 3)
                      \/ (from_piece.player = BlackPlayer /\ move.from[2] # 4)
                      \/ get_enpassant_target_file(state, from_piece.player) # move.to[1])
            ELSE IF abs(move.from[2] - move.to[2]) = 2
            THEN /\ ~(from_piece.player = BlackPlayer /\ move.from[2] # 1)
                 /\ ~(from_piece.player = WhitePlayer /\ move.from[2] # 6)
                 /\ get_piece(state, BoardPos(move.from[1], max_rank - 1)).type = Empty
                 /\ get_piece(state, BoardPos(move.from[1], move.to[2])).type = Empty
            ELSE get_piece(state, move.to).type = Empty
        castle_ok ==
            IF from_piece.player = WhitePlayer
            THEN ~(\/ (move.to[1] = 2 /\ ~state.white_castlert_left)
                   \/ (move.to[1] = 6 /\ ~state.white_castlert_right))
            ELSE ~(\/ (move.to[1] = 2 /\ ~state.black_castlert_left)
                   \/ (move.to[1] = 6 /\ ~state.black_castlert_right))
    IN  /\ is_move_possible(state, move)
        /\ to_piece.type # King
        /\ from_piece.player = (IF state.white_to_move THEN WhitePlayer ELSE BlackPlayer)
        /\ IF from_piece.type = Pawn THEN pawn_ok
           ELSE IF from_piece.type = King /\ abs(move.from[1] - move.to[1]) = 2 THEN castle_ok
           ELSE TRUE

\* is_move_legal: the rules of the piece, then the trial of the move on a copy.
is_move_legal(state, move) ==
    /\ follows_move_rules(state, move)
    /\ is_state_legal(make_move(state, move, FALSE))

\* The destinations legal_moves_from_pos tries for the piece at `initial`.
destinations_tried(initial, piece) ==
    CASE piece.type = King ->
            { boardpos_add(initial, d) : d \in Directions(King) }
            \cup (IF boardpos_eq(initial, KING_STARTING_POSITIONS[piece.player])
                  THEN { boardpos_add(initial, d) : d \in {<<2, 0>>, <<-2, 0>>} }
                  ELSE {})
      [] piece.type \in {Queen, Rook, Bishop} ->
            { Step(initial, dk[1], dk[2]) : dk \in Directions(piece.type) \X (1 .. 7) }
            \cap Squares
      [] piece.type = Knight ->
            { boardpos_add(initial, d) : d \in Directions(Knight) }
      [] piece.type = Pawn ->
            { boardpos_add(initial, IF piece.player = BlackPlayer THEN <<-d[1], -d[2]>> ELSE d) :
                d \in Directions(Pawn) }
      [] OTHER -> {}

\* The legal move destinations of the piece at `initial`, as a set.
legal_moves_from_pos(state, initial) ==
    { check \in destinations_tried(initial, get_piece(state, initial)) :
         /\ ~boardpos_eq(check, NULL_BOARDPOS)
         /\ is_move_legal(state, Move(initial, check)) }

\* Some listed piece of the player has a legal move.
has_legal_move(state, player) ==
    LET piece_list == IF player = WhitePlayer THEN state.piece_list_white
                      ELSE state.piece_list_black
    IN  \E i \in 0 .. 15 :
           /\ ~boardpos_eq(piece_list[i], NULL_BOARDPOS)
           /\ legal_moves_from_pos(state, piece_list[i]) # {}

Mutant_is_stalemate(state) ==
    ~has_legal_move(state, IF state.white_to_move THEN WhitePlayer ELSE BlackPlayer)

is_stalemate(state) ==
    LET to_move == IF state.white_to_move THEN WhitePlayer ELSE BlackPlayer
    IN  /\ ~is_player_in_check(state, to_move)
        /\ ~has_legal_move(state, to_move)

is_player_checkmated(state, player) ==
    /\ is_player_in_check(state, player)
    /\ ~has_legal_move(state, player)

-----------------------------------------------------------------------------
(* The game loop with two human players (main.c game_loop)                  *)

\* Greatest number of plies played.
MaxPly == 17

\* frontend_state.winner
WINNER_NONE == "none"
WINNER_WHITE == "white"
WINNER_BLACK == "black"
WINNER_DRAW == "draw"

\* A move in algebraic coordinates: files a .. h are 0 .. 7, and rank n of the
\* chess board is rank 8 - n of the array.
Alg(from_file, from_rank, to_file, to_rank) ==
    Move(BoardPos(from_file, 8 - from_rank), BoardPos(to_file, 8 - to_rank))

\* The pairs of clicks the players draw from.  Scenario 1: the h-pawns are
\* traded, a rook takes the rook on h8 and black castles.  Scenario 2: the
\* white king walks to g7 and takes the rook on h8.  Scenario 3: the white
\* king takes the rook on h8 and a knight then attacks h8.  Scenario 4: a white
\* pawn reaches g7 and black castles on the king's side.  Scenario 5: double
\* pawn pushes next to a white pawn on e5.  Scenario 6: the white h-pawn takes
\* its way to g8 and a black a-pawn takes its way to b1.  Scenario 7: the
\* king's pawns step forward, and a rook goes from a1 to a8.
MoveInputs ==
    [sc \in 1 .. 7 |->
        CASE sc = 1 ->
             { Alg(7, 2, 7, 4), Alg(6, 7, 6, 5), Alg(7, 4, 6, 5), Alg(7, 7, 7, 6),
               Alg(4, 2, 4, 3), Alg(7, 6, 6, 5), Alg(7, 1, 7, 8), Alg(6, 8, 5, 6),
               Alg(7, 8, 7, 3), Alg(5, 8, 7, 6), Alg(4, 3, 4, 4), Alg(4, 8, 6, 8) }
          [] sc = 2 ->
             { Alg(4, 2, 4, 3), Alg(0, 7, 0, 6), Alg(4, 1, 4, 2), Alg(0, 6, 0, 5),
               Alg(4, 2, 3, 3), Alg(4, 7, 4, 6), Alg(3, 3, 3, 4), Alg(6, 8, 4, 7),
               Alg(3, 4, 4, 5), Alg(6, 7, 6, 6), Alg(4, 5, 5, 6), Alg(5, 8, 6, 7),
               Alg(5, 6, 6, 7), Alg(0, 5, 0, 4), Alg(6, 7, 7, 8) }
          [] sc = 3 ->
             { Alg(4, 2, 4, 3), Alg(4, 7, 4, 6), Alg(4, 1, 4, 2), Alg(5, 8, 0, 3),
               Alg(4, 2, 3, 3), Alg(6, 8, 4, 7), Alg(3, 3, 3, 4), Alg(6, 7, 6, 5),
               Alg(3, 4, 4, 5), Alg(3, 7, 3, 6), Alg(4, 5, 5, 6), Alg(1, 8, 3, 7),
               Alg(5, 6, 6, 7), Alg(3, 7, 5, 8), Alg(6, 7, 7, 8), Alg(4, 7, 6, 6),
               Alg(4, 3, 4, 4) }
          [] sc = 4 ->
             { Alg(7, 2, 7, 4), Alg(4, 7, 4, 6), Alg(7, 4, 7, 5), Alg(5, 8, 0, 3),
               Alg(7, 5, 7, 6), Alg(6, 8, 5, 6), Alg(7, 6, 6, 7), Alg(4, 8, 6, 8) }
          [] sc = 5 ->
             { Alg(4, 2, 4, 4), Alg(0, 7, 0, 6), Alg(4, 4, 4, 5), Alg(3, 7, 3, 5),
               Alg(4, 5, 3, 6), Alg(7, 2, 7, 3), Alg(0, 6, 0, 5), Alg(5, 7, 5, 5),
               Alg(4, 5, 5, 6) }
          [] sc = 6 ->
             { Alg(7, 2, 7, 4), Alg(6, 7, 6, 5), Alg(7, 4, 6, 5), Alg(7, 7, 7, 6),
               Alg(6, 5, 7, 6), Alg(0, 7, 0, 6), Alg(7, 6, 7, 7), Alg(0, 6, 0, 5),
               Alg(7, 7, 6, 8), Alg(0, 5, 0, 4), Alg(1, 2, 1, 3), Alg(0, 4, 1, 3),
               Alg(6, 8, 6, 7), Alg(1, 3, 0, 2), Alg(6, 7, 6, 6), Alg(0, 2, 1, 1) }
          [] sc = 7 ->
             { Alg(4, 2, 4, 4), Alg(4, 7, 4, 5), Alg(0, 1, 0, 8) }]

Scenarios == DOMAIN MoveInputs

\* The squares whose history the castling rights depend on.
KeySquares ==
    { KING_STARTING_POSITIONS[p] : p \in Players }
    \cup { ROOK_STARTING_POSITIONS_LEFT[p] : p \in Players }
    \cup { ROOK_STARTING_POSITIONS_RIGHT[p] : p \in Players }

\* No move has been made yet.
NoMove == [move |-> NULL_MOVE, piece |-> Piece(Empty, WhitePlayer),
           captured |-> Piece(Empty, WhitePlayer)]

\* frontend_new_game: a fresh game state, nothing selected, no winner.
\* frontend_state.game_state before frontend_new_game(): a null pointer.
NULL_GAMESTATE == <<>>

\* No game has been started.
ChessIdle ==
    /\ game = NULL_GAMESTATE
    /\ selected_position = NULL_BOARDPOS
    /\ winner = WINNER_NONE
    /\ disturbed = {}
    /\ last_ply = NoMove
    /\ move_log = <<>>
    /\ two_player_mode = TRUE

ChessInit ==
    /\ game = init_gamestate
    /\ selected_position = NULL_BOARDPOS
    /\ winner = WINNER_NONE
    /\ disturbed = {}
    /\ last_ply = NoMove
    /\ scenario \in Scenarios
    /\ move_log = <<>>
    /\ two_player_mode = TRUE

player_to_move == IF game.white_to_move THEN WhitePlayer ELSE BlackPlayer

\* A click on a piece of the player to move selects it.
SelectPiece(pos) ==
    /\ main_pc = "loop"
    /\ winner = WINNER_NONE
    /\ \E m \in MoveInputs[scenario] : m.from = pos
    /\ get_piece(game, pos).type # Empty
    /\ \/ (two_player_mode /\ get_piece(game, pos).player = player_to_move)
       \/ (~two_player_mode /\ get_piece(game, pos).player = WhitePlayer)
    /\ selected_position' = pos
    /\ UNCHANGED <<game, winner, disturbed, last_ply, scenario, move_log, two_player_mode>>
    /\ UNCHANGED chess_rest

\* A click on another square with a piece selected: the move is made when it
\* is legal, and the winner is set on checkmate or stalemate.
MoveSelected(pos) ==
    /\ main_pc = "loop"
    /\ winner = WINNER_NONE
    /\ game.move_count < MaxPly
    /\ ~boardpos_eq(selected_position, NULL_BOARDPOS)
    /\ Move(selected_position, pos) \in MoveInputs[scenario]
    /\ ~(get_piece(game, pos).type # Empty /\
         \/ (two_player_mode /\ get_piece(game, pos).player = player_to_move)
         \/ (~two_player_mode /\ get_piece(game, pos).player = WhitePlayer))
    /\ is_move_legal(game, Move(selected_position, pos))
    /\ move_log' = Append(move_log, Move(selected_position, pos))
    /\ game' = make_move(game, Move(selected_position, pos), TRUE)
    /\ selected_position' = NULL_BOARDPOS
    /\ winner' = IF is_player_checkmated(game', other_player(player_to_move))
                 THEN (IF player_to_move = WhitePlayer THEN WINNER_WHITE ELSE WINNER_BLACK)
                 ELSE IF is_stalemate(game') THEN WINNER_DRAW
                 ELSE winner
    /\ disturbed' = disturbed \cup ({selected_position, pos} \cap KeySquares)
    /\ last_ply' = [move |-> Move(selected_position, pos),
                    piece |-> get_piece(game, selected_position),
                    captured |-> get_piece(game, pos)]
    /\ UNCHANGED <<scenario, two_player_mode>>
    /\ UNCHANGED chess_rest

ChessNext ==
    \E pos \in Squares :
       \/ SelectPiece(pos)
       \/ MoveSelected(pos)

-----------------------------------------------------------------------------
(* Forsyth-Edwards notation (fen.c).  A string is a sequence of its          *)
(* characters.                                                               *)

\* The character after the last one of a string.
NUL == "NUL"

\* fen[i] of the C string (indexed from 1 here)
CharAt(fen, i) == IF i <= Len(fen) THEN fen[i] ELSE NUL

\* static const char PIECES[7], without the '\0' of Empty
PIECES == <<"K", "Q", "R", "B", "N", "P">>

LOWER_PIECES == <<"k", "q", "r", "b", "n", "p">>

DIGITS == <<"0", "1", "2", "3", "4", "5", "6", "7", "8", "9">>

FILES == <<"a", "b", "c", "d", "e", "f", "g", "h">>

IndexOf(seq, c) == IF \E n \in 1 .. Len(seq) : seq[n] = c
                   THEN CHOOSE n \in 1 .. Len(seq) : seq[n] = c ELSE 0

isdigit(c) == IndexOf(DIGITS, c) # 0

parse_fen_piece(piece_char) ==
    IF IndexOf(PIECES, piece_char) # 0 THEN Piece(IndexOf(PIECES, piece_char), WhitePlayer)
    ELSE IF IndexOf(LOWER_PIECES, piece_char) # 0
    THEN Piece(IndexOf(LOWER_PIECES, piece_char), BlackPlayer)
    ELSE Piece(Empty, WhitePlayer)

piece_to_fen(piece) ==
    IF piece.player = BlackPlayer THEN LOWER_PIECES[piece.type] ELSE PIECES[piece.type]

algebraic_file_to_int(file) == IndexOf(FILES, file) - 1

int_file_to_algebraic(file) == FILES[file + 1]

\* fen_to_gamestate returns NULL
NULL == [null |-> TRUE]

\* The passes of the piece placement loop of fen_to_gamestate over one rank,
\* from character i on: the result is NULL after goto exit_error, or what the
\* loop has when it meets the '/' or the ' ' at index i.
RECURSIVE parse_rank(_, _, _, _, _, _, _)
parse_rank(fen, i, file, rank, piece_list_idx_white, piece_list_idx_black, out) ==
    LET c == CharAt(fen, i)
        piece == parse_fen_piece(c)
        pos == BoardPos(file, rank)
        placed == put_piece(out, piece, pos)
        kinged == IF piece.type = King THEN set_king_pos(placed, piece.player, pos) ELSE placed
        listed == IF piece.player = WhitePlayer
                  THEN [kinged EXCEPT !.piece_list_white[piece_list_idx_white] = pos]
                  ELSE [kinged EXCEPT !.piece_list_black[piece_list_idx_black] = pos]
    IN  IF c = NUL THEN NULL
        ELSE IF piece.type # Empty
        THEN IF file = 8 THEN NULL
             ELSE IF piece.type = King
                     /\ ~boardpos_eq(get_king_pos(out, piece.player), NULL_BOARDPOS)
             THEN NULL
             ELSE IF piece.player = WhitePlayer /\ piece_list_idx_white = 16 THEN NULL
             ELSE IF piece.player = BlackPlayer /\ piece_list_idx_black = 16 THEN NULL
             ELSE parse_rank(fen, i + 1, file + 1, rank,
                     piece_list_idx_white + (IF piece.player = WhitePlayer THEN 1 ELSE 0),
                     piece_list_idx_black + (IF piece.player = BlackPlayer THEN 1 ELSE 0),
                     listed)
        ELSE IF c = "/" \/ c = " "
        THEN [null |-> FALSE, i |-> i, file |-> file, out |-> out,
              piece_list_idx_white |-> piece_list_idx_white,
              piece_list_idx_black |-> piece_list_idx_black]
        ELSE IF isdigit(c)
        THEN IF file + IndexOf(DIGITS, c) - 1 > 8 THEN NULL
             ELSE parse_rank(fen, i + 1, file + IndexOf(DIGITS, c) - 1, rank,
                             piece_list_idx_white, piece_list_idx_black, out)
        ELSE NULL

\* The end of fen_to_gamestate: both kings are required, then the check flags
\* and the hash are computed.
with_hash(out) == [out EXCEPT !.hash = hash_state(out)]

parse_end(fen, i, out) ==
    IF CharAt(fen, i) # " " THEN NULL
    ELSE IF \/ boardpos_eq(out.white_king, NULL_BOARDPOS)
            \/ boardpos_eq(out.black_king, NULL_BOARDPOS) THEN NULL
    ELSE with_hash(with_black_king_in_check(with_white_king_in_check(out)))

\* The en passant target square, from fen[i] on.
parse_enpassant(fen, i, out) ==
    IF CharAt(fen, i) # "-" /\ algebraic_file_to_int(CharAt(fen, i)) = -1 THEN NULL
    ELSE IF CharAt(fen, i) # "-" /\ CharAt(fen, i + 1) \notin {"3", "6"} THEN NULL
    ELSE parse_end(fen, IF CharAt(fen, i) = "-" THEN i + 1 ELSE i + 2,
                   IF CharAt(fen, i) = "-" THEN out
                   ELSE IF CharAt(fen, i + 1) = "3"
                   THEN [out EXCEPT !.enpassant_target_black =
                                        algebraic_file_to_int(CharAt(fen, i))]
                   ELSE [out EXCEPT !.enpassant_target_white =
                                        algebraic_file_to_int(CharAt(fen, i))])

\* The castling rights, from fen[i] on: a '-', or the letters K, Q, k and q
\* that are there, tried in this order; then the space that ends the section.
parse_castling_q(fen, i, dash, out) ==
    IF CharAt(fen, IF dash THEN i + 1
                   ELSE IF CharAt(fen, i) = "q" THEN i + 1 ELSE i) # " " THEN NULL
    ELSE parse_enpassant(fen, IF dash \/ CharAt(fen, i) = "q" THEN i + 2 ELSE i + 1,
                         [out EXCEPT !.black_castlert_left = ~dash /\ CharAt(fen, i) = "q"])

parse_castling_k(fen, i, dash, out) ==
    parse_castling_q(fen, IF ~dash /\ CharAt(fen, i) = "k" THEN i + 1 ELSE i, dash,
                     [out EXCEPT !.black_castlert_right = ~dash /\ CharAt(fen, i) = "k"])

parse_castling_Q(fen, i, dash, out) ==
    parse_castling_k(fen, IF ~dash /\ CharAt(fen, i) = "Q" THEN i + 1 ELSE i, dash,
                     [out EXCEPT !.white_castlert_left = ~dash /\ CharAt(fen, i) = "Q"])

parse_castling(fen, i, out) ==
    parse_castling_Q(fen, IF CharAt(fen, i) = "K" THEN i + 1 ELSE i, CharAt(fen, i) = "-",
                     [out EXCEPT !.white_castlert_right = CharAt(fen, i) = "K"])

\* The space after the piece placement, the player to move and the space
\* after it, from fen[i] on.
parse_to_move(fen, i, out) ==
    IF CharAt(fen, i) # " " THEN NULL
    ELSE IF CharAt(fen, i + 1) \notin {"w", "b"} THEN NULL
    ELSE IF CharAt(fen, i + 2) # " " THEN NULL
    ELSE parse_castling(fen, i + 3, [out EXCEPT !.white_to_move = CharAt(fen, i + 1) = "w"])

\* The piece placement loop of fen_to_gamestate from the rank that starts at
\* character i on, and what follows the loop.
RECURSIVE parse_placement(_, _, _, _, _, _)
RECURSIVE parse_after_rank(_, _, _)

parse_after_rank(fen, rank, r) ==
    IF r = NULL THEN NULL
    ELSE IF CharAt(fen, r.i) = "/"
    THEN IF rank + 1 = 8 THEN NULL
         ELSE parse_placement(fen, r.i + 1, rank + 1, r.piece_list_idx_white,
                              r.piece_list_idx_black, r.out)
    ELSE IF r.file # 8 \/ rank # 7 THEN NULL
    ELSE parse_to_move(fen, r.i, r.out)

parse_placement(fen, i, rank, piece_list_idx_white, piece_list_idx_black, out) ==
    parse_after_rank(fen, rank,
                     parse_rank(fen, i, 0, rank, piece_list_idx_white, piece_list_idx_black,
                                out))

\* init_gamestate followed by clear_board.
cleared_gamestate ==
    [init_gamestate EXCEPT !.board = clear_board.board,
                           !.piece_list_white = clear_board.piece_list_white,
                           !.piece_list_black = clear_board.piece_list_black,
                           !.white_king = clear_board.white_king,
                           !.black_king = clear_board.black_king]

fen_to_gamestate(fen) == parse_placement(fen, 1, 0, 0, 0, cleared_gamestate)

\* One rank of the piece placement, from `file` on, after empty_count empty
\* squares.
RECURSIVE rank_to_fen(_, _, _, _)
rank_to_fen(state, rank, file, empty_count) ==
    IF file = 8 THEN <<>>
    ELSE LET piece == get_piece(state, BoardPos(file, rank))
             count == IF piece.type # Empty THEN 0 ELSE empty_count + 1
             here == IF piece.type # Empty
                     THEN (IF empty_count # 0 THEN <<DIGITS[empty_count + 1]>> ELSE <<>>)
                          \o <<piece_to_fen(piece)>>
                     ELSE <<>>
             last == IF file = 7 /\ count # 0 THEN <<DIGITS[count + 1]>> ELSE <<>>
         IN  here \o last \o rank_to_fen(state, rank, file + 1,
                                         IF file = 7 THEN 0 ELSE count)

RECURSIVE ranks_to_fen(_, _)
ranks_to_fen(state, rank) ==
    IF rank = 8 THEN <<>>
    ELSE rank_to_fen(state, rank, 0, 0) \o (IF rank = 7 THEN <<" ">> ELSE <<"/">>)
         \o ranks_to_fen(state, rank + 1)

gamestate_to_fen(state) ==
    LET no_rights == /\ ~state.white_castlert_left /\ ~state.white_castlert_right
                     /\ ~state.black_castlert_left /\ ~state.black_castlert_right
        rights == IF no_rights THEN <<"-">>
                  ELSE (IF state.white_castlert_right THEN <<"K">> ELSE <<>>)
                       \o (IF state.white_castlert_left THEN <<"Q">> ELSE <<>>)
                       \o (IF state.black_castlert_right THEN <<"k">> ELSE <<>>)
                       \o (IF state.black_castlert_left THEN <<"q">> ELSE <<>>)
        target_file == get_enpassant_target_file(
                          state, IF state.white_to_move THEN WhitePlayer ELSE BlackPlayer)
        target == IF target_file # -1
                  THEN <<int_file_to_algebraic(target_file),
                         IF state.white_to_move THEN "6" ELSE "3">>
                  ELSE <<"-">>
    IN  ranks_to_fen(state, 0) \o <<IF state.white_to_move THEN "w" ELSE "b", " ">>
        \o rights \o <<" ">> \o target \o <<" ", "0", " ", "0">>

\* The initial position.
StartFen == <<"r","n","b","q","k","b","n","r","/","p","p","p","p","p","p","p","p","/",
              "8","/","8","/","8","/","8","/","P","P","P","P","P","P","P","P","/",
              "R","N","B","Q","K","B","N","R"," ","w"," ","K","Q","k","q"," ","-"," ","0"," ","0">>

\* "6k1/5ppp/8/8/8/8/5PPP/R5K1 w - - 0 0": the rook on a1 mates on a8.
MateFen == <<"6","k","1","/","5","p","p","p","/","8","/","8","/","8","/","8","/",
             "5","P","P","P","/","R","5","K","1"," ","w"," ","-"," ","-"," ","0"," ","0">>

\* "8/p7/7k/8/6R1/8/5KR1/8 w - - 0 0": either rook mates on the h-file.
TwoRooksFen == <<"8","/","p","7","/","7","k","/","8","/","6","R","1","/","8","/",
                 "5","K","R","1","/","8"," ","w"," ","-"," ","-"," ","0"," ","0">>

-----------------------------------------------------------------------------
(* The search over positions (engine.c): position_value,                    *)
(* all_legal_moves_ordered, negamax and negamax_from_root, with a            *)
(* transposition table that gives every position a slot of its own           *)

\* Greatest depth given to negamax_from_root.
MaxPositionDepth == 3

\* Greatest number of root searches of one position, by increasing depth.
MaxRootSearches == 2

\* The value of a position in which the opponent is checkmated.
CheckmateValue == 1000000

\* INT_MIN and INT_MAX of a 32-bit int
INT32_MIN == -2147483647 - 1

INT32_MAX == -(INT32_MIN + 1)

\* value = -value
Mutant_negate(value) == value
negate(value) == -value

\* static const int PIECE_VALUES[6]
PIECE_VALUES == <<20000, 900, 500, 330, 320, 100>>

RECURSIVE Sum(_, _)
Sum(f, S) == IF S = {} THEN 0
                ELSE LET e == CHOOSE e \in S : TRUE IN f[e] + Sum(f, S \ {e})

position_value(state) ==
    LET checks == IF is_player_in_check(state, WhitePlayer) THEN -30
                  ELSE IF is_player_in_check(state, BlackPlayer) THEN 30 ELSE 0
        listed(list) == [i \in 0 .. 15 |->
                            IF boardpos_eq(list[i], NULL_BOARDPOS) THEN 0
                            ELSE PIECE_VALUES[get_piece(state, list[i]).type]]
        pieces == Sum([i \in 0 .. 15 |-> listed(state.piece_list_white)[i]
                                            - listed(state.piece_list_black)[i]], 0 .. 15)
        b(v) == IF v THEN 1 ELSE 0
        rights == b(state.white_castlert_left) + b(state.white_castlert_right)
                  - b(state.black_castlert_left) - b(state.black_castlert_right)
        friendly(i) == boardpos_add(state.white_king, PIECE_MOVE_DIRECTIONS[King][i])
        enemy(i) == boardpos_add(state.black_king, PIECE_MOVE_DIRECTIONS[King][i])
        safety == Sum([i \in 1 .. 8 |->
                     (IF /\ ~boardpos_eq(friendly(i), NULL_BOARDPOS)
                         /\ get_piece(state, friendly(i)).type # Empty
                         /\ get_piece(state, friendly(i)).player = WhitePlayer THEN 10 ELSE 0)
                     - (IF /\ ~boardpos_eq(enemy(i), NULL_BOARDPOS)
                           /\ get_piece(state, enemy(i)).type # Empty
                           /\ get_piece(state, enemy(i)).player = BlackPlayer THEN 10 ELSE 0)],
                     1 .. 8)
        centre == Sum([sq \in (2 .. 5) \X (2 .. 5) |->
                     LET piece == get_piece(state, sq)
                         weight == IF sq[1] = 2 \/ sq[1] = 5 \/ sq[2] = 2 \/ sq[2] = 5
                                   THEN 2 ELSE 5
                     IN  IF piece.type = Empty THEN 0
                         ELSE IF piece.player = WhitePlayer THEN weight ELSE -weight],
                     (2 .. 5) \X (2 .. 5))
    IN  checks + pieces + rights + safety + centre

\* The destinations legal_moves_from_pos tries, in the order it tries them.
move_candidates(state, initial) ==
    LET piece == get_piece(state, initial)
        dirs == PIECE_MOVE_DIRECTIONS[piece.type]
        single(d) == IF boardpos_eq(d, NULL_BOARDPOS) THEN NULL_BOARDPOS
                     ELSE boardpos_add(initial, d)
        pawn_direction(d) == IF boardpos_eq(d, NULL_BOARDPOS) THEN d
                             ELSE IF piece.player = BlackPlayer THEN <<-d[1], -d[2]>> ELSE d
        sliding(n) == LET d == dirs[((n - 1) \div 7) + 1]
                          k == ((n - 1) % 7) + 1
                      IN  IF boardpos_eq(d, NULL_BOARDPOS) \/ Step(initial, d, k) \notin Squares
                          THEN NULL_BOARDPOS ELSE Step(initial, d, k)
    IN  CASE piece.type = King ->
                [i \in 1 .. 8 |-> single(dirs[i])]
                \o (IF boardpos_eq(initial, KING_STARTING_POSITIONS[piece.player])
                    THEN <<boardpos_add(initial, <<2, 0>>), boardpos_add(initial, <<-2, 0>>)>>
                    ELSE <<>>)
          [] piece.type \in {Queen, Rook, Bishop} -> [n \in 1 .. 56 |-> sliding(n)]
          [] piece.type = Knight -> [i \in 1 .. 8 |-> single(dirs[i])]
          [] piece.type = Pawn -> [i \in 1 .. 8 |-> single(pawn_direction(dirs[i]))]
          [] OTHER -> <<>>

legal_moves_list(state, initial) ==
    LET legal(check) == /\ ~boardpos_eq(check, NULL_BOARDPOS)
                        /\ is_move_legal(state, Move(initial, check))
    IN  SelectSeq(move_candidates(state, initial), legal)

RECURSIVE Concat(_, _)
Concat(f, n) == IF n < 0 THEN <<>> ELSE Concat(f, n - 1) \o f[n]

\* The legal moves of the piece on `initial`, in the order they are found.
moves_to(initial, dests) == [m \in 1 .. Len(dests) |-> Move(initial, dests[m])]

legal_moves_of_piece(state, initial) ==
    IF boardpos_eq(initial, NULL_BOARDPOS) THEN <<>>
    ELSE moves_to(initial, legal_moves_list(state, initial))

\* The moves found go into three arrays, which are then joined: the best move
\* of the table's entry, the captures, the other moves.
order_moves(state, player, tp_entry, all) ==
    LET has_pvn == tp_entry.depth # 0 /\ ~boardpos_eq(tp_entry.best_move.from, NULL_BOARDPOS)
        is_pvn(move) == has_pvn /\ move = tp_entry.best_move
        is_capture(move) ==
            \/ (get_piece(state, move.to).type # Empty /\ get_piece(state, move.to).player # player)
            \/ (get_piece(state, move.from).type = Pawn /\ move.from[1] # move.to[1])
        capture(move) == ~is_pvn(move) /\ is_capture(move)
        other(move) == ~is_pvn(move) /\ ~is_capture(move)
    IN  (IF has_pvn THEN <<tp_entry.best_move>> ELSE <<>>)
        \o SelectSeq(all, capture) \o SelectSeq(all, other)

piece_list_of(state, player) ==
    IF player = WhitePlayer THEN state.piece_list_white ELSE state.piece_list_black

Mutant_all_legal_moves_ordered(state, player, tp_entry) ==
    Concat([i \in 0 .. 15 |->
               legal_moves_of_piece(state, piece_list_of(state, player)[i])], 15)
all_legal_moves_ordered(state, player, tp_entry) ==
    order_moves(state, player, tp_entry,
                Concat([i \in 0 .. 15 |->
                           legal_moves_of_piece(state, piece_list_of(state, player)[i])], 15))

MissEntry == TranspositionEntry(ZeroHash, NULL_MOVE, 0, 0, EntryTypeExact)

table_get(table, hash) ==
    IF \E e \in table : e.hash = hash THEN CHOOSE e \in table : e.hash = hash ELSE MissEntry

table_put(table, entry) ==
    LET prev == table_get(table, entry.hash)
    IN  IF prev.depth = 0 \/ prev.depth <= entry.depth
        THEN { e \in table : e.hash # entry.hash } \cup {entry}
        ELSE table

RECURSIVE negamax(_, _, _, _, _)
RECURSIVE negamax_loop(_, _, _, _, _, _, _, _, _)
RECURSIVE negamax_pass(_, _, _, _, _, _, _, _, _)
RECURSIVE negamax_node(_, _, _, _, _, _, _)
RECURSIVE negamax_probe(_, _, _, _, _, _)

\* The loop of negamax over the legal moves, from legal_moves[i] on.
negamax_loop(state, legal_moves, i, alpha, beta, depth, best_value, best_move, table) ==
    IF i > Len(legal_moves)
    THEN [best_value |-> best_value, best_move |-> best_move, table |-> table]
    ELSE negamax_pass(state, legal_moves, i, alpha, beta, depth, best_value, best_move,
                      negamax(make_move(state, legal_moves[i], TRUE), -beta, -alpha,
                              depth - 1, table))

\* One pass of the loop, after the call of negamax for legal_moves[i] gave r.
negamax_pass(state, legal_moves, i, alpha, beta, depth, best_value, best_move, r) ==
    LET value == negate(r.value)
        better == value > best_value
        new_best == IF better THEN value ELSE best_value
        new_move == IF better THEN legal_moves[i] ELSE best_move
        new_alpha == IF better /\ value > alpha THEN value ELSE alpha
    IN  IF new_alpha >= beta
        THEN [best_value |-> new_best, best_move |-> new_move, table |-> r.table]
        ELSE negamax_loop(state, legal_moves, i + 1, new_alpha, beta, depth, new_best,
                          new_move, r.table)

\* The end of negamax: r is what the loop gave.
negamax_store(state, start_alpha, beta, depth, r) ==
    LET type == IF r.best_value <= start_alpha THEN EntryTypeUpper
                ELSE IF r.best_value >= beta THEN EntryTypeLower
                ELSE EntryTypeExact
    IN  [value |-> r.best_value,
         table |-> table_put(r.table,
                             TranspositionEntry(state.hash, r.best_move, depth,
                                                r.best_value, type))]

\* negamax after the probe of the table did not end the call.
negamax_node(state, start_alpha, alpha, beta, depth, table, tp_entry) ==
    LET player == IF state.white_to_move THEN WhitePlayer ELSE BlackPlayer
        result(v) == [value |-> v, table |-> table]
    IN  IF is_player_checkmated(state, player) THEN result(-CheckmateValue)
        ELSE IF is_player_checkmated(state, other_player(player)) THEN result(CheckmateValue)
        ELSE IF is_stalemate(state) THEN result(0)
        ELSE IF depth = 0
        THEN result(position_value(state) * (IF player = WhitePlayer THEN 1 ELSE -1))
        ELSE negamax_store(state, start_alpha, beta, depth,
                           negamax_loop(state, all_legal_moves_ordered(state, player, tp_entry),
                                        1, alpha, beta, depth, INT32_MIN,
                                        IF tp_entry.depth = 0 THEN NULL_MOVE
                                        ELSE tp_entry.best_move, table))

\* The probe of the table: tp_entry is what tptable_get gave.
negamax_probe(state, alpha0, beta0, depth, table, tp_entry) ==
    LET hit == tp_entry.depth # 0 /\ tp_entry.depth >= depth
        alpha == IF hit /\ tp_entry.type = EntryTypeLower THEN MAX(alpha0, tp_entry.value)
                 ELSE alpha0
        beta == IF hit /\ tp_entry.type = EntryTypeUpper THEN MIN(beta0, tp_entry.value)
                ELSE beta0
    IN  IF hit /\ tp_entry.type = EntryTypeExact THEN [value |-> tp_entry.value, table |-> table]
        ELSE IF hit /\ alpha >= beta THEN [value |-> tp_entry.value, table |-> table]
        ELSE negamax_node(state, alpha0, alpha, beta, depth, table, tp_entry)

\* The time of the search is not up.
negamax(state, alpha0, beta0, depth, table) ==
    negamax_probe(state, alpha0, beta0, depth, table, table_get(table, state.hash))


\* The positions searched.
FenInputs == <<MateFen, TwoRooksFen>>

\* The move is legal and leaves the opponent checkmated.
Checkmates(state, move) ==
    /\ is_move_legal(state, move)
    /\ is_player_checkmated(make_move(state, move, TRUE),
                            IF state.white_to_move THEN BlackPlayer ELSE WhitePlayer)

RootInit ==
    /\ root_fen \in DOMAIN FenInputs
    /\ root_state = fen_to_gamestate(FenInputs[root_fen])
    /\ root_pc = "idle"
    /\ root_depth = 0
    /\ root_legal_moves = <<>>
    /\ root_i = 0
    /\ root_alpha = INT32_MIN + 1
    /\ root_best_value = INT32_MIN
    /\ root_best_move = NULL_MOVE
    /\ position_table = {}
    /\ root_searches = 0

\* No position is being searched.
RootIdle ==
    /\ root_fen = 1
    /\ root_state = NULL_GAMESTATE
    /\ root_pc = "idle"
    /\ root_depth = 0
    /\ root_legal_moves = <<>>
    /\ root_i = 0
    /\ root_alpha = INT32_MIN + 1
    /\ root_best_value = INT32_MIN
    /\ root_best_move = NULL_MOVE
    /\ position_table = {}
    /\ root_searches = 0

\* negamax_from_root(state, depth, start_time) up to its loop; the searches of
\* one position are run by increasing depth.
RootSearchStart(depth) ==
    /\ root_pc \in {"idle", "done"}
    /\ depth > root_depth
    /\ root_searches < MaxRootSearches
    /\ root_pc' = "loop"
    /\ root_depth' = depth
    /\ root_searches' = root_searches + 1
    /\ root_alpha' = INT32_MIN + 1
    /\ root_best_value' = INT32_MIN
    /\ root_best_move' = NULL_MOVE
    /\ root_legal_moves' =
          all_legal_moves_ordered(root_state,
                                  IF root_state.white_to_move THEN WhitePlayer ELSE BlackPlayer,
                                  table_get(position_table, root_state.hash))
    /\ root_i' = 1
    /\ UNCHANGED <<root_fen, root_state, position_table>>
    /\ UNCHANGED root_rest

\* One pass of the loop of negamax_from_root; the search is not out of time.
RootSearchMove ==
    /\ root_pc = "loop"
    /\ root_i <= Len(root_legal_moves)
    /\ \E r \in {negamax(make_move(root_state, root_legal_moves[root_i], TRUE), -INT32_MAX,
                        -root_alpha, root_depth - 1, position_table)} :
          /\ position_table' = r.table
          /\ IF negate(r.value) > root_best_value
             THEN /\ root_best_value' = negate(r.value)
                  /\ root_best_move' = root_legal_moves[root_i]
                  /\ root_alpha' = IF negate(r.value) > root_alpha THEN negate(r.value)
                                   ELSE root_alpha
             ELSE UNCHANGED <<root_best_value, root_best_move, root_alpha>>
    /\ root_i' = root_i + 1
    /\ UNCHANGED <<root_fen, root_state, root_pc, root_depth, root_legal_moves, root_searches>>
    /\ UNCHANGED root_rest

\* The end of negamax_from_root: the best move goes into the table.
RootSearchStore ==
    /\ root_pc = "loop"
    /\ root_i > Len(root_legal_moves)
    /\ position_table' =
          IF ~boardpos_eq(root_best_move.from, NULL_BOARDPOS)
          THEN table_put(position_table,
                         TranspositionEntry(root_state.hash, root_best_move, root_depth,
                                            root_best_value, EntryTypeExact))
          ELSE position_table
    /\ root_pc' = "done"
    /\ UNCHANGED <<root_fen, root_state, root_depth, root_legal_moves, root_i, root_alpha,
                   root_best_value, root_best_move, root_searches>>
    /\ UNCHANGED root_rest

RootNext ==
    \/ \E depth \in 1 .. MaxPositionDepth : RootSearchStart(depth)
    \/ RootSearchMove
    \/ RootSearchStore

-----------------------------------------------------------------------------
(* The legality checks in memory (engine.c is_move_legal and its callers,   *)
(* chess.c copy_gamestate)                                                  *)

\* Greatest number of plies played between the checks.
MaxTrialPly == 2

\* The caller's GameState, and the block malloc has to hand out.
Blocks == {"state", "state_copy"}

\* The scenarios whose moves are asked about: the double pawn pushes next to a
\* pawn on e5, and the mate by the rook.
TrialScenarios == {5, 7}

\* The moves asked about: those of the scenario, and a step of the black king
\* from g8 to f8.
TrialInputs == MoveInputs[scenario] \cup {Alg(6, 8, 5, 8)}

\* malloc(sizeof(*state)): a block that is not in use.
malloc(memory) == CHOOSE block \in Blocks : ~memory[block].allocated

\* A copy that is the caller's own block.
Mutant_copy_gamestate(memory, state) == state

\* copy_gamestate: the pointer it returns, a new block.
copy_gamestate(memory, state) == malloc(memory)

\* is_state_legal(state_copy), then free(state_copy).
trial_answer(memory, state_copy) ==
    [heap |-> [memory EXCEPT ![state_copy].allocated = FALSE],
     value |-> is_state_legal(memory[state_copy].bytes)]

\* make_move(state_copy, move, false).
trial_move(memory, state_copy, move) ==
    trial_answer([memory EXCEPT ![state_copy].bytes = make_move(@, move, FALSE)],
                 state_copy)

\* memcpy(new, state, sizeof(*state)).
trial_copy(memory, state, state_copy, move) ==
    trial_move([memory EXCEPT ![state_copy] =
                                 [bytes |-> memory[state].bytes, allocated |-> TRUE]],
               state_copy, move)

\* is_move_legal on the GameState in block `state`: the memory it leaves and
\* its answer.
is_move_legal_in(memory, state, move) ==
    IF ~follows_move_rules(memory[state].bytes, move)
    THEN [heap |-> memory, value |-> FALSE]
    ELSE trial_copy(memory, state, copy_gamestate(memory, state), move)

\* legal_moves_from_pos: is_move_legal for each destination tried, counting
\* the legal ones.
RECURSIVE legal_moves_loop(_, _, _, _, _)
RECURSIVE legal_moves_step(_, _, _, _, _)
legal_moves_loop(memory, state, initial, todo, found) ==
    IF todo = {} THEN [heap |-> memory, value |-> found]
    ELSE legal_moves_step(
             is_move_legal_in(memory, state, Move(initial, CHOOSE check \in todo : TRUE)),
             state, initial, todo \ {CHOOSE check \in todo : TRUE}, found)

legal_moves_step(tried, state, initial, todo, found) ==
    IF tried.value THEN legal_moves_loop(tried.heap, state, initial, todo, found + 1)
    ELSE legal_moves_loop(tried.heap, state, initial, todo, found)

legal_moves_from_pos_in(memory, state, initial) ==
    legal_moves_loop(memory, state, initial,
                     destinations_tried(initial, get_piece(memory[state].bytes, initial))
                         \ {NULL_BOARDPOS},
                     0)

\* The loop over a player's piece list in is_stalemate and
\* is_player_checkmated (which stop at the first piece that has a legal move)
\* and in all_legal_moves_ordered.
RECURSIVE piece_list_loop(_, _, _, _, _, _)
RECURSIVE piece_list_step(_, _, _, _, _, _)
piece_list_loop(memory, state, player, i, first_only, found) ==
    IF i = 16 \/ (first_only /\ found # 0) THEN [heap |-> memory, value |-> found]
    ELSE IF boardpos_eq(piece_list_of(memory[state].bytes, player)[i], NULL_BOARDPOS)
    THEN piece_list_loop(memory, state, player, i + 1, first_only, found)
    ELSE piece_list_step(
             legal_moves_from_pos_in(memory, state,
                                     piece_list_of(memory[state].bytes, player)[i]),
             state, player, i, first_only, found)

piece_list_step(generated, state, player, i, first_only, found) ==
    piece_list_loop(generated.heap, state, player, i + 1, first_only,
                    found + generated.value)

\* No legal move was found.
none_found(looped) == [heap |-> looped.heap, value |-> looped.value = 0]

is_stalemate_in(memory, state) ==
    IF is_player_in_check(memory[state].bytes,
                          IF memory[state].bytes.white_to_move THEN WhitePlayer
                          ELSE BlackPlayer)
    THEN [heap |-> memory, value |-> FALSE]
    ELSE none_found(piece_list_loop(memory, state,
                                    IF memory[state].bytes.white_to_move THEN WhitePlayer
                                    ELSE BlackPlayer,
                                    0, TRUE, 0))

is_player_checkmated_in(memory, state, player) ==
    IF ~is_player_in_check(memory[state].bytes, player)
    THEN [heap |-> memory, value |-> FALSE]
    ELSE none_found(piece_list_loop(memory, state, player, 0, TRUE, 0))

all_legal_moves_ordered_in(memory, state, player) ==
    piece_list_loop(memory, state, player, 0, FALSE, 0)

\* A game state made by init_gamestate or by fen_to_gamestate, and no call yet.
LegalityStart(start) ==
    /\ heap = [block \in Blocks |->
                 [bytes |-> IF block = "state" THEN start ELSE init_gamestate,
                  allocated |-> block = "state"]]
    /\ called = [name |-> "none", arg |-> NULL_MOVE]
    /\ entry_state = start
    /\ answer = FALSE

LegalityInit == \E start \in {init_gamestate, fen_to_gamestate(MateFen)} : LegalityStart(start)

\* No GameState is in memory.
LegalityIdle ==
    /\ heap = [block \in Blocks |-> [bytes |-> NULL_GAMESTATE, allocated |-> FALSE]]
    /\ called = [name |-> "none", arg |-> NULL_MOVE]
    /\ entry_state = NULL_GAMESTATE
    /\ answer = FALSE

\* A call has returned: what it left in memory and what it answered.
Returned(name, arg, result) ==
    /\ heap' = result.heap
    /\ called' = [name |-> name, arg |-> arg]
    /\ entry_state' = heap["state"].bytes
    /\ answer' = result.value
    /\ UNCHANGED legality_rest

CallIsMoveLegal(move) ==
    Returned("is_move_legal", move, is_move_legal_in(heap, "state", move))

CallLegalMovesFromPos(initial) ==
    /\ get_piece(heap["state"].bytes, initial).type # Empty
    /\ Returned("legal_moves_from_pos", initial,
                legal_moves_from_pos_in(heap, "state", initial))

CallIsStalemate ==
    Returned("is_stalemate", NULL_MOVE, is_stalemate_in(heap, "state"))

CallIsPlayerCheckmated(player) ==
    Returned("is_player_checkmated", player, is_player_checkmated_in(heap, "state", player))

CallAllLegalMovesOrdered(player) ==
    Returned("all_legal_moves_ordered", player,
             all_legal_moves_ordered_in(heap, "state", player))

\* The game loop makes a move that is_move_legal has accepted.
CallMakeMove(move) ==
    /\ heap["state"].bytes.move_count < MaxTrialPly
    /\ is_move_legal(heap["state"].bytes, move)
    /\ heap' = [heap EXCEPT !["state"].bytes = make_move(@, move, TRUE)]
    /\ called' = [name |-> "make_move", arg |-> move]
    /\ entry_state' = heap["state"].bytes
    /\ answer' = FALSE
    /\ UNCHANGED legality_rest

LegalityNext ==
    \/ \E move \in TrialInputs : CallIsMoveLegal(move)
    \/ \E move \in TrialInputs : CallLegalMovesFromPos(move.from)
    \/ CallIsStalemate
    \/ \E player \in Players : CallIsPlayerCheckmated(player)
    \/ \E player \in Players : CallAllLegalMovesOrdered(player)
    \/ \E move \in TrialInputs : CallMakeMove(move)

-----------------------------------------------------------------------------
(* The program (main.c main, frontend_state.c, ui.c draw_ui, main.c         *)
(* game_loop in computer mode)                                              *)

\* Greatest depth whose search generate_move completes before the time is up.
MaxGenerateDepth == 2

\* The scenario of the program's games: a king's pawn opening, and the rook
\* move that mates in MateFen.
ProgramScenario == Cardinality(DOMAIN MoveInputs)

\* A placement whose ranks are not eight squares wide, one without kings, and
\* a side to move that is neither w nor b.
ShortRanksFen ==
    <<"k", "/", "8", "/", "8", "/", "8", "/", "8", "/", "8", "/", "8", "/", "K", "7",
      " ", "w", " ", "-", " ", "-", " ", "0", " ", "0">>
NoKingsFen ==
    <<"8", "/", "8", "/", "8", "/", "8", "/", "8", "/", "8", "/", "8", "/", "8",
      " ", "w", " ", "-", " ", "-", " ", "0", " ", "0">>
BadSideFen ==
    <<"6", "k", "1", "/", "5", "p", "p", "p", "/", "8", "/", "8", "/", "8", "/", "8", "/",
      "5", "P", "P", "P", "/", "R", "5", "K", "1",
      " ", "x", " ", "-", " ", "-", " ", "0", " ", "0">>

\* "R5k1/5ppp/8/8/8/8/5PPP/6K1 b - - 0 0": MateFen after the rook went to a8;
\* black is to move and is checkmated.
MatedFen ==
    <<"R", "5", "k", "1", "/", "5", "p", "p", "p", "/", "8", "/", "8", "/", "8", "/", "8", "/",
      "5", "P", "P", "P", "/", "6", "K", "1",
      " ", "b", " ", "-", " ", "-", " ", "0", " ", "0">>

\* What GetClipboardText returns when Load Game is clicked; input 0 stands
\* for a clipboard without text (NULL).
ClipboardInputs == <<MateFen, ShortRanksFen, NoKingsFen, BadSideFen, MatedFen>>

\* mtx_lock(&tp_table_mutex) of a table operation; the mutex exists in a
\* build with C11 threads only.
locks_mutex(op) ==
    IF c11_build /\ mutex_life # "initialised" THEN tt_misuse \cup {op} ELSE tt_misuse

\* The fields of frontend_state that belong to one game, and the table.
Frontend ==
    [game_state |-> game, selected_position |-> selected_position, move_log |-> move_log,
     winner |-> winner, tp_table |-> game_table]

reset_ingame_frontend_state(fs) ==
    [fs EXCEPT !.selected_position = NULL_BOARDPOS, !.move_log = <<>>,
               !.winner = WINNER_NONE, !.tp_table = {}]

frontend_new_game(fs) ==
    [reset_ingame_frontend_state(fs) EXCEPT !.game_state = init_gamestate]

\* The return value is game_state # NULL.
frontend_new_game_from_fen(fs, fen) ==
    [reset_ingame_frontend_state(fs) EXCEPT !.game_state = fen_to_gamestate(fen)]

\* The fields are stored; the history of the squares starts with the game.
StoreFrontend(fs) ==
    /\ game' = fs.game_state
    /\ selected_position' = fs.selected_position
    /\ move_log' = fs.move_log
    /\ winner' = fs.winner
    /\ game_table' = fs.tp_table
    /\ disturbed' = {}
    /\ last_ply' = NoMove

\* tptable_set_protected_hash: a slot holding another position is reset to an
\* entry of the hash without a move.
set_protected_hash(table, hash) ==
    IF \E e \in table : e.hash = hash THEN table
    ELSE table \cup {SeedEntry(MissEntry, hash)}

RECURSIVE root_loop(_, _, _, _, _, _, _, _)
RECURSIVE root_pass(_, _, _, _, _, _, _, _)

\* The loop of negamax_from_root over the legal moves, from legal_moves[i] on.
root_loop(state, legal_moves, i, alpha, depth, best_value, best_move, table) ==
    IF i > Len(legal_moves)
    THEN [best_value |-> best_value, best_move |-> best_move, table |-> table]
    ELSE root_pass(state, legal_moves, i, alpha, depth, best_value, best_move,
                   negamax(make_move(state, legal_moves[i], TRUE), -INT32_MAX, -alpha,
                           depth - 1, table))

\* One pass of the loop, after the call of negamax for legal_moves[i] gave r.
root_pass(state, legal_moves, i, alpha, depth, best_value, best_move, r) ==
    IF negate(r.value) > best_value
    THEN root_loop(state, legal_moves, i + 1,
                   IF negate(r.value) > alpha THEN negate(r.value) ELSE alpha,
                   depth, negate(r.value), legal_moves[i], r.table)
    ELSE root_loop(state, legal_moves, i + 1, alpha, depth, best_value, best_move, r.table)

\* The end of negamax_from_root: r is what the loop gave.
root_store(state, depth, r) ==
    IF ~boardpos_eq(r.best_move.from, NULL_BOARDPOS)
    THEN table_put(r.table, TranspositionEntry(state.hash, r.best_move, depth,
                                               r.best_value, EntryTypeExact))
    ELSE r.table

\* negamax_from_root of a search that is not out of time: the table it leaves.
negamax_from_root(state, depth, table) ==
    root_store(state, depth,
               root_loop(state,
                         all_legal_moves_ordered(
                            state, IF state.white_to_move THEN WhitePlayer ELSE BlackPlayer,
                            table_get(table, state.hash)),
                         1, INT32_MIN + 1, depth, INT32_MIN, NULL_MOVE, table))

\* The tasks of generate_move run one after the other on the calling thread;
\* those of the depths up to last complete, the deeper ones are out of time
\* at once.
RECURSIVE movegen_tasks(_, _, _, _)
movegen_tasks(state, depth, last, table) ==
    IF depth > last THEN table
    ELSE movegen_tasks(state, depth + 1, last, negamax_from_root(state, depth, table))

\* The program starts: nothing of a game exists yet.
MainInit ==
    /\ c11_build \in BOOLEAN
    /\ main_pc = "start"
    /\ mutex_life = "uninitialised"
    /\ tt_misuse = {}
    /\ message_box = "none"
    /\ movegen_started = FALSE
    /\ load_returned = "none"
    /\ game_table = {}
    /\ game = NULL
    /\ selected_position = NULL_BOARDPOS
    /\ winner = WINNER_NONE
    /\ disturbed = {}
    /\ last_ply = NoMove
    /\ scenario = ProgramScenario
    /\ move_log = <<>>
    /\ two_player_mode = TRUE

\* The program inside its loop, between two frames of a game of two players.
MainIdle ==
    /\ c11_build = FALSE
    /\ main_pc = "loop"
    /\ mutex_life = "uninitialised"
    /\ tt_misuse = {}
    /\ message_box = "none"
    /\ movegen_started = FALSE
    /\ load_returned = "none"
    /\ game_table = {}

\* main up to frontend_new_game(), whose reset calls tptable_clear.
MainNewGame ==
    /\ main_pc = "start"
    /\ main_pc' = "tptable_init"
    /\ tt_misuse' = locks_mutex("tptable_clear")
    /\ StoreFrontend(frontend_new_game(Frontend))
    /\ UNCHANGED <<scenario, two_player_mode>>
    /\ UNCHANGED <<c11_build, mutex_life, message_box, movegen_started, load_returned>>
    /\ UNCHANGED main_rest

\* main: tptable_init().
MainTptableInit ==
    /\ main_pc = "tptable_init"
    /\ main_pc' = "loop"
    /\ mutex_life' = IF c11_build THEN "initialised" ELSE mutex_life
    /\ UNCHANGED chess_vars
    /\ UNCHANGED <<c11_build, tt_misuse, message_box, movegen_started, load_returned,
                   game_table>>
    /\ UNCHANGED main_rest

\* draw_ui: one of the two New Game buttons is clicked.
NewGameButton(two_player) ==
    /\ main_pc = "loop"
    /\ two_player_mode' = two_player
    /\ tt_misuse' = locks_mutex("tptable_clear")
    /\ StoreFrontend(frontend_new_game(Frontend))
    /\ UNCHANGED scenario
    /\ UNCHANGED <<c11_build, main_pc, mutex_life, message_box, movegen_started,
                   load_returned>>
    /\ UNCHANGED main_rest

\* draw_ui: one of the two Load Game buttons is clicked.  When the clipboard
\* has no text or the load fails, a message is set and a default game started.
LoadGameButton(two_player, clip) ==
    /\ main_pc = "loop"
    /\ \E loaded \in {IF clip = 0 THEN Frontend
                       ELSE frontend_new_game_from_fen(Frontend, ClipboardInputs[clip])} :
          /\ StoreFrontend(IF clip = 0 \/ loaded.game_state = NULL
                           THEN frontend_new_game(loaded) ELSE loaded)
          /\ message_box' = IF clip = 0 \/ loaded.game_state = NULL THEN "invalid"
                            ELSE message_box
          /\ load_returned' = IF clip = 0 THEN load_returned
                              ELSE IF loaded.game_state = NULL THEN "false" ELSE "true"
    /\ two_player_mode' = two_player
    /\ tt_misuse' = locks_mutex("tptable_clear")
    /\ UNCHANGED scenario
    /\ UNCHANGED <<c11_build, main_pc, mutex_life, movegen_started>>
    /\ UNCHANGED main_rest

\* draw_ui: the message box is closed.
CloseMessageBox ==
    /\ main_pc = "loop"
    /\ message_box # "none"
    /\ message_box' = "none"
    /\ UNCHANGED chess_vars
    /\ UNCHANGED <<c11_build, main_pc, mutex_life, tt_misuse, movegen_started, load_returned,
                   game_table>>
    /\ UNCHANGED main_rest

\* game_loop, computer to move and no move generation started: generate_move.
\* The opening book is empty.  frontend_state.threadpool is NULL: a build
\* without threads runs each task inline, a build with C11 threads reads
\* pool->thread_count through the null pointer and the program ends.
ComputerGenerate(last) ==
    /\ main_pc = "loop"
    /\ winner = WINNER_NONE /\ ~two_player_mode /\ ~game.white_to_move
    /\ ~movegen_started
    /\ movegen_started' = TRUE
    /\ tt_misuse' = locks_mutex("tptable_set_protected_hash")
    /\ IF c11_build
       THEN /\ game_table' = set_protected_hash(game_table, game.hash)
            /\ main_pc' = "crashed"
       ELSE /\ game_table' = movegen_tasks(game, 1, last,
                                           set_protected_hash(game_table, game.hash))
            /\ UNCHANGED main_pc
    /\ UNCHANGED chess_vars
    /\ UNCHANGED <<c11_build, mutex_life, message_box, load_returned>>
    /\ UNCHANGED main_rest

\* game_loop, computer to move and the time of the move generation is up: the
\* best move of the entry of the position is logged and made.
ComputerPlay ==
    /\ main_pc = "loop"
    /\ winner = WINNER_NONE /\ ~two_player_mode /\ ~game.white_to_move
    /\ movegen_started
    /\ movegen_started' = FALSE
    /\ tt_misuse' = locks_mutex("tptable_get")
    /\ LET entry == table_get(game_table, game.hash)
       IN  IF ~boardpos_eq(entry.best_move.from, NULL_BOARDPOS)
           THEN /\ move_log' = Append(move_log, entry.best_move)
                /\ game' = make_move(game, entry.best_move, TRUE)
                /\ selected_position' =
                      IF /\ ~boardpos_eq(selected_position, NULL_BOARDPOS)
                         /\ \/ get_piece(game', selected_position).type = Empty
                            \/ boardpos_eq(selected_position, entry.best_move.to)
                      THEN NULL_BOARDPOS ELSE selected_position
                /\ winner' = IF is_player_checkmated(game', WhitePlayer) THEN WINNER_BLACK
                             ELSE IF is_stalemate(game') THEN WINNER_DRAW
                             ELSE winner
                /\ disturbed' = disturbed \cup ({entry.best_move.from, entry.best_move.to}
                                                \cap KeySquares)
                /\ last_ply' = [move |-> entry.best_move,
                                piece |-> get_piece(game, entry.best_move.from),
                                captured |-> get_piece(game, entry.best_move.to)]
           ELSE UNCHANGED <<game, selected_position, winner, disturbed, last_ply, move_log>>
    /\ UNCHANGED <<scenario, two_player_mode>>
    /\ UNCHANGED <<c11_build, main_pc, mutex_life, message_box, load_returned, game_table>>
    /\ UNCHANGED main_rest

\* main after its loop: the game state and the move log are freed, the pool
\* pointer is NULL, and tptable_deinit destroys the mutex.
MainCleanup ==
    /\ main_pc = "loop"
    /\ main_pc' = "exited"
    /\ mutex_life' = IF c11_build THEN "destroyed" ELSE mutex_life
    /\ UNCHANGED chess_vars
    /\ UNCHANGED <<c11_build, tt_misuse, message_box, movegen_started, load_returned,
                   game_table>>
    /\ UNCHANGED main_rest

MainNext ==
    \/ MainNewGame
    \/ MainTptableInit
    \/ \E two_player \in BOOLEAN : NewGameButton(two_player)
    \/ \E two_player \in BOOLEAN, clip \in 0 .. Len(ClipboardInputs) :
          LoadGameButton(two_player, clip)
    \/ CloseMessageBox
    \/ \E pos \in Squares : SelectPiece(pos)
    \/ \E pos \in Squares : MoveSelected(pos)
    \/ \E last \in 1 .. MaxGenerateDepth : ComputerGenerate(last)
    \/ ComputerPlay
    \/ MainCleanup

-----------------------------------------------------------------------------
(* Opening book (openings.c): init_opening_book, find_opening_by_hash and   *)
(* binary_search_items                                                      *)

\* Width in bits of unsigned int (32, scaled down).
UintBits == 3

UINT_MAX == 2^UintBits - 1

\* static const unsigned int ITEMS_MAX = INT32_MAX
ITEMS_MAX == 2^(UintBits - 1) - 1

\* The greatest moves_count of an item (UINT8_MAX, 255, scaled down).
UINT8_MAX == 2

\* Greatest number of 16-byte records in the book file.
MaxRecords == 4

\* The Zobrist hashes of the book file and of the positions looked up are
\* 0 .. MaxBookHash.
MaxBookHash == 4

BookHashes == 0 .. MaxBookHash

PROMO_PIECE_NONE == 0
PROMO_PIECE_QUEEN == 4

\* The uint16 move of a record: five 3-bit fields, to-file the least
\* significant, rows counted from the bottom of the board.
PolyglotMove(from_file, from_row, to_file, to_row, promo_piece) ==
    to_file + 8 * to_row + 64 * from_file + 512 * from_row + 4096 * promo_piece

\* The moves of the records: e2e4, a7a8 promoting to a queen, a7a8 promoting
\* to a knight.
RecordMoves ==
    { PolyglotMove(4, 1, 4, 3, PROMO_PIECE_NONE),
      PolyglotMove(0, 6, 0, 7, PROMO_PIECE_QUEEN),
      PolyglotMove(0, 6, 0, 7, 1) }

\* (move >> shift) & MOVE_VALUE_MASK
move_value(move, shift) == (move \div (2^shift)) % 8

promo_piece_of(move) == move_value(move, 12)

\* The struct Move init_opening_book builds from the uint16 of a record.
actual_move(move) ==
    Move(BoardPos(move_value(move, 6), 7 - move_value(move, 9)),
         BoardPos(move_value(move, 0), 7 - move_value(move, 3)))

Record(hash, move) == [hash |-> hash, move |-> move]

\* The book files: up to MaxRecords records, sorted ascending by hash.
BookFiles ==
    { file \in UNION { [1 .. n -> { Record(h, m) : h \in BookHashes, m \in RecordMoves }] :
                         n \in 0 .. MaxRecords } :
        \A i \in 1 .. (Len(file) - 1) : file[i].hash <= file[i + 1].hash }

OpeningItem(hash, moves) == [hash |-> hash, moves |-> moves]

\* items_count != 0 && items[items_count - 1].hash == hash
Mutant_SameHashAsLast(book_items, hash) == FALSE
SameHashAsLast(book_items, hash) ==
    Len(book_items) /= 0 /\ book_items[Len(book_items)].hash = hash

\* One pass of the read loop of init_opening_book, for the record `entry`;
\* stopped is set by the break.
read_entry(book, entry) ==
    LET count == Len(book.items)
    IN  IF book.stopped THEN book
        ELSE IF count = ITEMS_MAX THEN [book EXCEPT !.stopped = TRUE]
        ELSE IF /\ promo_piece_of(entry.move) /= PROMO_PIECE_NONE
                /\ promo_piece_of(entry.move) /= PROMO_PIECE_QUEEN
        THEN book
        ELSE IF SameHashAsLast(book.items, entry.hash)
        THEN IF Len(book.items[count].moves) = UINT8_MAX THEN book
             ELSE [book EXCEPT !.items[count].moves = Append(@, actual_move(entry.move))]
        ELSE [book EXCEPT !.items =
                 Append(@, OpeningItem(entry.hash, <<actual_move(entry.move)>>))]

RECURSIVE read_entries(_, _, _)
\* The read loop from record i of the file on.
read_entries(book, file, i) ==
    IF i > Len(file) THEN book
    ELSE read_entries(read_entry(book, file[i]), file, i + 1)

\* A NULL struct OpeningItem *.
NULL_ITEM == -1

BookInit ==
    /\ book_file \in BookFiles
    /\ items = <<>>
    /\ items_count = 0
    /\ book_pc = "unloaded"
    /\ bs_pc = "idle"
    /\ bs_hash = 0
    /\ low = 0
    /\ high = 0
    /\ bs_result = NULL_ITEM
    /\ bs_wrapped = FALSE
    /\ bs_outside = FALSE

\* init_opening_book(): a book without items is fatal.
InitOpeningBook ==
    /\ book_pc = "unloaded"
    /\ bs_pc = "idle"
    /\ LET book == read_entries([items |-> <<>>, stopped |-> FALSE], book_file, 1)
       IN  /\ items' = book.items
           /\ items_count' = Len(book.items)
           /\ book_pc' = IF Len(book.items) = 0 THEN "exited" ELSE "loaded"
    /\ UNCHANGED <<book_file, bs_pc, bs_hash, low, high, bs_result, bs_wrapped, bs_outside>>
    /\ UNCHANGED book_rest

\* deinit_opening_book()
DeinitOpeningBook ==
    /\ book_pc = "loaded"
    /\ bs_pc = "idle"
    /\ items' = <<>>
    /\ items_count' = 0
    /\ book_pc' = "unloaded"
    /\ UNCHANGED <<book_file, bs_pc, bs_hash, low, high, bs_result, bs_wrapped, bs_outside>>
    /\ UNCHANGED book_rest

\* find_opening_by_hash(hash): NULL for an empty book, or the call of
\* binary_search_items(hash, 0, items_count - 1).
FindOpeningByHash(hash) ==
    /\ book_pc /= "exited"
    /\ bs_pc = "idle"
    /\ bs_hash' = hash
    /\ IF items_count = 0
       THEN /\ bs_pc' = "done"
            /\ UNCHANGED <<low, high>>
       ELSE /\ bs_pc' = "loop"
            /\ low' = 0
            /\ high' = items_count - 1
    /\ bs_result' = NULL_ITEM
    /\ UNCHANGED <<book_file, items, items_count, book_pc, bs_wrapped, bs_outside>>
    /\ UNCHANGED book_rest

\* unsigned int mid = (high + low) / 2
mid_of(lo, hi) == ((hi + lo) % (2^UintBits)) \div 2

\* What the read of items[mid].hash gives: the stored hash, or any value when
\* mid is not an index of the array.
items_hash_read(mid) ==
    IF mid < items_count THEN {items[mid + 1].hash} ELSE BookHashes

\* One pass of the while loop of binary_search_items, or its exit.
BinarySearchStep ==
    /\ bs_pc = "loop"
    /\ IF low > high
       THEN /\ bs_pc' = "done"
            /\ bs_result' = NULL_ITEM
            /\ UNCHANGED <<low, high, bs_wrapped, bs_outside>>
       ELSE LET mid == mid_of(low, high)
            IN  /\ bs_outside' = (bs_outside \/ mid >= items_count)
                /\ \E read \in items_hash_read(mid) :
                      IF read = bs_hash
                      THEN /\ bs_pc' = "done"
                           /\ bs_result' = mid
                           /\ bs_wrapped' = (bs_wrapped \/ high + low > UINT_MAX)
                           /\ UNCHANGED <<low, high>>
                      ELSE IF read < bs_hash
                      THEN /\ low' = (mid + 1) % (2^UintBits)
                           /\ bs_wrapped' = (bs_wrapped \/ high + low > UINT_MAX
                                                        \/ mid + 1 > UINT_MAX)
                           /\ UNCHANGED <<high, bs_pc, bs_result>>
                      ELSE /\ high' = (mid - 1) % (2^UintBits)
                           /\ bs_wrapped' = (bs_wrapped \/ high + low > UINT_MAX
                                                        \/ mid - 1 < 0)
                           /\ UNCHANGED <<low, bs_pc, bs_result>>
    /\ UNCHANGED <<book_file, items, items_count, book_pc, bs_hash>>
    /\ UNCHANGED book_rest

\* The read of items[mid].hash outside the array faults.
BinarySearchFaults ==
    /\ bs_pc = "loop"
    /\ low <= high
    /\ mid_of(low, high) >= items_count
    /\ bs_pc' = "crashed"
    /\ bs_outside' = TRUE
    /\ UNCHANGED <<book_file, items, items_count, book_pc, bs_hash, low, high, bs_result,
                   bs_wrapped>>
    /\ UNCHANGED book_rest

\* find_opening_by_hash has returned and its result has been used.
FindReturn ==
    /\ bs_pc = "done"
    /\ bs_pc' = "idle"
    /\ bs_hash' = 0
    /\ low' = 0
    /\ high' = 0
    /\ bs_result' = NULL_ITEM
    /\ bs_wrapped' = FALSE
    /\ bs_outside' = FALSE
    /\ UNCHANGED <<book_file, items, items_count, book_pc>>
    /\ UNCHANGED book_rest

BookNext ==
    \/ InitOpeningBook
    \/ DeinitOpeningBook
    \/ \E hash \in BookHashes : FindOpeningByHash(hash)
    \/ BinarySearchStep
    \/ BinarySearchFaults
    \/ FindReturn

-----------------------------------------------------------------------------
(* The search: negamax_from_root and negamax (engine.c)                     *)

\* Width in bits of int (32, scaled down).
IntBits == 4

INT_MIN == -(2^(IntBits - 1))

INT_MAX == 2^(IntBits - 1) - 1

\* The score of a checkmate (1000000, scaled down); position_value stays
\* below it.
MateValue == 2

\* position_value(state) * (player == WhitePlayer ? 1 : -1)
LeafValues == (1 - MateValue) .. (MateValue - 1)

\* Greatest depth negamax_from_root is called with.
MaxRootDepth == 3

\* Greatest number of legal moves of a position of the search.
MaxMoves == 2

\* negamax_from_root: int alpha = INT_MIN + 1
Mutant_RootAlpha == INT_MIN
RootAlpha == INT_MIN + 1

\* negamax_from_root: const int beta = INT_MAX
RootBeta == INT_MAX

\* A call of negamax_from_root (root) or negamax: its parameters and locals.
\* timed: the call, or a call below it, has found the time elapsed.
\* best_move: the place in legal_moves of the move in tp_entry.best_move
\* (best_move of negamax_from_root), 0 before the loop has set it.
\* values: the values the loop has compared so far, in the order of the moves.
Frame(root, pc, depth, alpha, beta, start_alpha, best_value, move_count) ==
    [root |-> root, pc |-> pc, depth |-> depth, alpha |-> alpha, beta |-> beta,
     start_alpha |-> start_alpha, best_value |-> best_value, i |-> 0,
     move_count |-> move_count, timed |-> FALSE, best_move |-> 0, values |-> <<>>]

\* No call has returned yet.
NoReturn == [value |-> 0, timed |-> FALSE, depth |-> -1]

\* The entry of the table for a position of the search; depth 0: none.
NoStoredEntry == [depth |-> 0, value |-> 0, type |-> EntryTypeExact, best_move |-> 0]

Top == call_stack[Len(call_stack)]

Caller == Len(call_stack) - 1

NegamaxInit ==
    /\ call_stack = <<>>
    /\ returned = NoReturn
    /\ table_entry = NoStoredEntry
    /\ time_up = FALSE
    /\ overflowed = FALSE

\* movegen_task calls negamax_from_root(state, depth, start_time) for a
\* position with move_count legal moves.
NegamaxFromRoot(depth, move_count) ==
    /\ call_stack = <<>>
    /\ ~overflowed
    /\ call_stack' = <<Frame(TRUE, "loop", depth, RootAlpha, RootBeta, RootAlpha, INT_MIN,
                             move_count)>>
    /\ returned' = NoReturn
    /\ UNCHANGED <<table_entry, time_up, overflowed>>
    /\ UNCHANGED negamax_rest

\* int value = negamax(state_copy, -beta, -alpha, depth - 1, start_time): the
\* negation of INT_MIN is undefined.
CallNegamax ==
    /\ call_stack /= <<>>
    /\ ~overflowed
    /\ Top.pc = "loop"
    /\ Top.i < Top.move_count
    /\ IF Top.beta = INT_MIN \/ Top.alpha = INT_MIN
       THEN /\ overflowed' = TRUE
            /\ UNCHANGED call_stack
       ELSE /\ call_stack' = Append(call_stack,
                                    Frame(FALSE, "entry", Top.depth - 1, -Top.beta, -Top.alpha,
                                          -Top.beta, INT_MIN, 0))
            /\ UNCHANGED overflowed
    /\ UNCHANGED <<returned, table_entry, time_up>>
    /\ UNCHANGED negamax_rest

\* The stack and the value returned when the call on top returns value.
Return(value, timed) ==
    /\ call_stack' = [k \in 1 .. Caller |->
                        IF k = Caller THEN [call_stack[k] EXCEPT !.pc = "got"]
                        ELSE call_stack[k]]
    /\ returned' = [value |-> value, timed |-> timed, depth |-> Top.depth]

\* time(NULL) - start_time >= MAX_MOVEGEN_SEARCH_TIME, as negamax reads it.
Mutant_search_time_elapsed(up) == FALSE
search_time_elapsed(up) == up

\* negamax from its entry to the first call of itself: the table lookup, the
\* end of the game, the horizon and the time check.  The table has the entry
\* table_entry for the position, or none.
NegamaxEnter ==
    /\ call_stack /= <<>>
    /\ ~overflowed
    /\ Top.pc = "entry"
    /\ \E tp_entry \in {NoStoredEntry, table_entry},
          over \in {"lost", "won", "stalemate", "no"},
          leaf \in LeafValues,
          move_count \in 1 .. MaxMoves :
          LET hit == tp_entry.depth /= 0 /\ tp_entry.depth >= Top.depth
              alpha == IF hit /\ tp_entry.type = EntryTypeLower
                       THEN MAX(Top.alpha, tp_entry.value) ELSE Top.alpha
              beta == IF hit /\ tp_entry.type = EntryTypeUpper
                      THEN MIN(Top.beta, tp_entry.value) ELSE Top.beta
          IN  IF hit /\ tp_entry.type = EntryTypeExact THEN Return(tp_entry.value, FALSE)
              ELSE IF hit /\ alpha >= beta THEN Return(tp_entry.value, FALSE)
              ELSE IF over = "lost" THEN Return(-MateValue, FALSE)
              ELSE IF over = "won" THEN Return(MateValue, FALSE)
              ELSE IF over = "stalemate" THEN Return(0, FALSE)
              ELSE IF Top.depth = 0 THEN Return(leaf, FALSE)
              ELSE IF search_time_elapsed(time_up) THEN Return(INT_MIN, TRUE)
              ELSE /\ call_stack' =
                         [call_stack EXCEPT ![Len(call_stack)] =
                             [@ EXCEPT !.pc = "loop", !.alpha = alpha, !.beta = beta,
                                       !.best_value = INT_MIN, !.i = 0,
                                       !.move_count = move_count]]
                   /\ UNCHANGED returned
    /\ UNCHANGED <<table_entry, time_up, overflowed>>
    /\ UNCHANGED negamax_rest

\* if (value == INT_MIN): the search below has run out of time.
Mutant_search_aborted(value) == FALSE
search_aborted(value) == value = INT_MIN

\* The rest of a pass of the move loop, after negamax has returned: INT_MIN is
\* passed up; any other value is negated and compared.
ReceiveValue ==
    /\ call_stack /= <<>>
    /\ ~overflowed
    /\ Top.pc = "got"
    /\ IF search_aborted(returned.value)
       THEN IF Top.root
            THEN /\ call_stack' = <<>>
                 /\ UNCHANGED returned
            ELSE Return(INT_MIN, returned.timed)
       ELSE LET value == -returned.value
                better == value > Top.best_value
                best_value == IF better THEN value ELSE Top.best_value
                alpha == IF better /\ value > Top.alpha THEN value ELSE Top.alpha
                cutoff == ~Top.root /\ alpha >= Top.beta
            IN  /\ call_stack' =
                      [call_stack EXCEPT ![Len(call_stack)] =
                          [@ EXCEPT !.pc = IF cutoff THEN "end" ELSE "loop",
                                    !.best_value = best_value, !.alpha = alpha,
                                    !.best_move = IF better THEN Top.i + 1 ELSE @,
                                    !.values = Append(@, value),
                                    !.i = @ + 1]]
                /\ UNCHANGED returned
    /\ UNCHANGED <<table_entry, time_up, overflowed>>
    /\ UNCHANGED negamax_rest

\* The type negamax gives its entry.
Mutant_entry_type(best_value, start_alpha, beta) ==
    IF best_value < start_alpha THEN EntryTypeUpper
    ELSE IF best_value >= beta THEN EntryTypeLower
    ELSE EntryTypeExact
entry_type(best_value, start_alpha, beta) ==
    IF best_value <= start_alpha THEN EntryTypeUpper
    ELSE IF best_value >= beta THEN EntryTypeLower
    ELSE EntryTypeExact

\* What tptable_put(entry) can leave in the table: the entry, or the entry of
\* the same hash that the table has with a greater depth.  (The slots, and the
\* positions that share one, are those of the table above.)
stored_entries(entry) ==
    {entry} \cup (IF table_entry.depth > entry.depth THEN {table_entry} ELSE {})

\* After the move loop: negamax stores its entry and returns best_value;
\* negamax_from_root stores the entry of its best move, if it has one.
FinishSearch ==
    /\ call_stack /= <<>>
    /\ ~overflowed
    /\ Top.pc = "end" \/ (Top.pc = "loop" /\ Top.i = Top.move_count)
    /\ IF Top.root
       THEN /\ call_stack' = <<>>
            /\ table_entry' \in
                  IF Top.best_value /= INT_MIN
                  THEN stored_entries([depth |-> Top.depth, value |-> Top.best_value,
                                       type |-> EntryTypeExact, best_move |-> Top.best_move])
                  ELSE {table_entry}
            /\ UNCHANGED returned
       ELSE /\ table_entry' \in
                  stored_entries([depth |-> Top.depth, value |-> Top.best_value,
                                  type |-> entry_type(Top.best_value, Top.start_alpha, Top.beta),
                                  best_move |-> Top.best_move])
            /\ Return(Top.best_value, FALSE)
    /\ UNCHANGED <<time_up, overflowed>>
    /\ UNCHANGED negamax_rest

\* time(NULL) - start_time reaches MAX_MOVEGEN_SEARCH_TIME.
TimeUp ==
    /\ ~time_up
    /\ ~overflowed
    /\ time_up' = TRUE
    /\ UNCHANGED <<call_stack, returned, table_entry, overflowed>>
    /\ UNCHANGED negamax_rest

NegamaxNext ==
    \/ \E depth \in 1 .. MaxRootDepth, move_count \in 0 .. MaxMoves :
          NegamaxFromRoot(depth, move_count)
    \/ CallNegamax
    \/ NegamaxEnter
    \/ ReceiveValue
    \/ FinishSearch
    \/ TimeUp

-----------------------------------------------------------------------------
(* Specifications                                                           *)

\* The table alone: pool variables stay as threadpool_init leaves them in a
\* build without threads.
TTInit0 ==
    /\ TTInit /\ PoolInit /\ thread_count = 0 /\ SearchInit /\ ChessIdle /\ scenario = 1
    /\ BookInit /\ book_file = <<>>
    /\ NegamaxInit
    /\ RootIdle
    /\ MainIdle
    /\ LegalityIdle

SpecTT == TTInit0 /\ [][TTNext]_vars

PoolInit0 ==
    /\ PoolInit /\ TTInit /\ SearchInit /\ ChessIdle /\ scenario = 1
    /\ BookInit /\ book_file = <<>>
    /\ NegamaxInit
    /\ RootIdle
    /\ MainIdle
    /\ LegalityIdle

SpecPool == PoolInit0 /\ [][PoolNext]_vars

\* Every step of the owning thread inside threadpool_deinit and every step of
\* a worker is eventually taken when it stays possible; a spurious wakeup and
\* the decision to call threadpool_enqueue or threadpool_deinit are not forced.
PoolFairness ==
    /\ WF_vars(EnqueueInsert)
    /\ WF_vars(EnqueueSignal)
    /\ WF_vars(EnqueueInline)
    /\ WF_vars(EnqueueReturn)
    /\ WF_vars(StopCheck)
    /\ WF_vars(StopEnqueue)
    /\ WF_vars(StopSignal)
    /\ WF_vars(DeinitDestroy)
    /\ \A w \in Workers :
          /\ SF_vars(WorkerLock(w))
          /\ SF_vars(WorkerWake(w))
          /\ SF_vars(WorkerRun(w))
          /\ SF_vars(WorkerExit(w))

FairSpecPool == PoolInit0 /\ [][PoolNext]_vars /\ PoolFairness

\* The move generation: the table starts as tptable.c initialises it.
SearchInit0 ==
    /\ SearchInit /\ TTInit /\ PoolInit /\ thread_count = 0 /\ ChessIdle /\ scenario = 1
    /\ BookInit /\ book_file = <<>>
    /\ NegamaxInit
    /\ RootIdle
    /\ MainIdle
    /\ LegalityIdle

SpecSearch == SearchInit0 /\ [][SearchNext]_vars

\* Two human players at one board; the table, the pool and the move generation
\* are idle.
ChessInit0 ==
    /\ ChessInit /\ TTInit /\ PoolInit /\ thread_count = 0 /\ SearchInit
    /\ BookInit /\ book_file = <<>>
    /\ NegamaxInit
    /\ RootIdle
    /\ MainIdle
    /\ LegalityIdle

SpecChess == ChessInit0 /\ [][ChessNext]_vars

\* The opening book alone, for every sorted book file.
BookInit0 ==
    /\ BookInit /\ TTInit /\ PoolInit /\ thread_count = 0 /\ SearchInit
    /\ ChessIdle /\ scenario = 1
    /\ NegamaxInit
    /\ RootIdle
    /\ MainIdle
    /\ LegalityIdle

SpecBook == BookInit0 /\ [][BookNext]_vars

\* The calls of negamax_from_root of one thread, one after the other.
NegamaxInit0 ==
    /\ NegamaxInit /\ TTInit /\ PoolInit /\ thread_count = 0 /\ SearchInit
    /\ ChessIdle /\ scenario = 1
    /\ BookInit /\ book_file = <<>>
    /\ RootIdle
    /\ MainIdle
    /\ LegalityIdle

SpecNegamax == NegamaxInit0 /\ [][NegamaxNext]_vars

\* The root searches of one position, for each of the positions searched.
RootInit0 ==
    /\ RootInit /\ TTInit /\ PoolInit /\ thread_count = 0 /\ SearchInit
    /\ ChessIdle /\ scenario = 1
    /\ BookInit /\ book_file = <<>>
    /\ NegamaxInit
    /\ MainIdle
    /\ LegalityIdle

SpecRoot == RootInit0 /\ [][RootNext]_vars

\* The program from its start to its end, in both builds.
MainInit0 ==
    /\ MainInit /\ TTInit /\ PoolInit /\ thread_count = 0 /\ SearchInit
    /\ BookInit /\ book_file = <<>>
    /\ NegamaxInit
    /\ RootIdle
    /\ LegalityIdle

SpecMain == MainInit0 /\ [][MainNext]_vars

\* game_loop takes its computer branch: computer mode, black to move, no
\* winner set.
EngineToMove ==
    /\ main_pc = "loop"
    /\ game # NULL
    /\ winner = WINNER_NONE
    /\ ~two_player_mode
    /\ ~game.white_to_move

\* A pass of game_loop through its computer branch, ComputerGenerate or
\* ComputerPlay: movegen_started changes from 0 to the time or back, which
\* no other action does.
ComputerFrame ==
    /\ EngineToMove
    /\ movegen_started' = ~movegen_started

\* game_loop runs once per frame for as long as the window is open: a pass
\* through the computer branch that stays due is made.  ComputerFrame is
\* enabled exactly when EngineToMove holds, and its steps are the steps of
\* ComputerGenerate and ComputerPlay.  Nothing obliges the user to click.
MainFairness == WF_movegen_started(ComputerFrame)

FairSpecMain == MainInit0 /\ [][MainNext]_vars /\ MainFairness


\* The engine's legality checks called on one GameState between the moves of
\* a game.
LegalityInit0 ==
    /\ LegalityInit /\ TTInit /\ PoolInit /\ thread_count = 0 /\ SearchInit
    /\ ChessIdle /\ scenario \in TrialScenarios
    /\ BookInit /\ book_file = <<>>
    /\ NegamaxInit
    /\ RootIdle
    /\ MainIdle

SpecLegality == LegalityInit0 /\ [][LegalityNext]_vars

-----------------------------------------------------------------------------
(* Properties of the transposition table                                    *)

\* The entries one single write can leave in a slot: the zero fill, an entry
\* given to tptable_put, or the seed of tptable_set_protected_hash (which keeps
\* the type field of the entry it replaces).
SingleWrites ==
    {ZeroEntry} \cup PutInputs \cup
    { TranspositionEntry(h, NULL_MOVE, 0, 0, ty) :
        h \in Hashes, ty \in {EntryTypeExact, EntryTypeLower} }

\* A thread has made the decision of tptable_put and done the store, if any:
\* it still holds the mutex, tt_local is prev and tt_entry is the argument.
PutDecided(t) == tt_pc[t] = "put_unlock"

\* tptable_put for a hash other than the protected one, aimed at its slot.
PutCollidesWithProtected(t) ==
    /\ PutDecided(t)
    /\ tt_entry[t].hash /= protected_hash
    /\ SlotOf(tt_entry[t].hash) = SlotOf(protected_hash)

\* C1 (as stated): once tptable_set_protected_hash(H) has returned and while H
\* is the protected hash, a tptable_put of an entry with another hash leaves
\* the slot of H unchanged.
C1_PutNeverDisplacesProtected ==
    \A t \in Threads :
        (protect_done /\ PutCollidesWithProtected(t))
            => tp_table[SlotOf(protected_hash)] = tt_local[t]

\* C1 (amended): the slot of the protected hash H keeps an entry for H, and no
\* tptable_put with another hash changes it, as long as tptable_clear has not
\* run since tptable_set_protected_hash(H) returned.
C1_ProtectedUntilClear ==
    (protect_done /\ ~cleared) =>
        /\ \A t \in Threads :
              PutCollidesWithProtected(t)
                  => /\ tp_table[SlotOf(protected_hash)] = tt_local[t]
                     /\ tt_local[t].hash = protected_hash
        /\ tp_table_mutex = NoThread
              => tp_table[SlotOf(protected_hash)].hash = protected_hash

\* A put with a colliding hash has been refused while the slot holds the
\* protected hash with an entry a search stored there.
C1_Witness ==
    \E t \in Threads :
        /\ protect_done /\ ~cleared
        /\ PutCollidesWithProtected(t)
        /\ tt_local[t].hash = protected_hash
        /\ tt_local[t] \in PutInputs
        /\ tp_table[SlotOf(protected_hash)] = tt_local[t]

\* C2: whatever the interleaving of get, put, clear and set_protected calls,
\* the entry tptable_get(h) returns is the null entry or an entry whose hash is
\* h and whose fields all come from one single write.
C2_GetNeverTorn ==
    \A t \in Threads :
        tt_pc[t] = "get_ret" =>
            \/ tt_local[t] = NullEntry
            \/ (tt_local[t].hash = tt_hash[t] /\ tt_local[t] \in SingleWrites)

\* tptable_get has returned a stored search entry while another thread is in
\* the middle of storing into the same slot.
C2_Witness ==
    \E t \in Threads, u \in Threads :
        /\ tt_pc[t] = "get_ret"
        /\ tt_local[t] \in PutInputs
        /\ tt_local[t].hash = tt_hash[t]
        /\ tt_pc[u] = "put_store2"
        /\ SlotOf(tt_entry[u].hash) = SlotOf(tt_hash[t])
        /\ tt_entry[u] /= tt_local[t]

\* The slot is empty: it holds what the zero fill left.
SlotEmpty(prev) == prev = ZeroEntry

\* The replacement policy as the specification words it.
PolicyWrites(prev, entry, protected) ==
    \/ SlotEmpty(prev)
    \/ (prev.hash = entry.hash /\ prev.depth <= entry.depth)
    \/ (prev.hash /= entry.hash /\ prev.hash /= protected)

\* C3: tptable_put(e) overwrites the slot when it is empty, when it holds the
\* same hash at a depth <= e.depth, or when it holds another hash that is not
\* the protected one, and leaves the table unchanged otherwise, in every table
\* state.
C3_PutPolicy ==
    \A t \in Threads :
        PutDecided(t) =>
            tp_table[SlotOf(tt_entry[t].hash)] =
                IF PolicyWrites(tt_local[t], tt_entry[t], protected_hash)
                THEN tt_entry[t] ELSE tt_local[t]

-----------------------------------------------------------------------------
(* Properties of the thread pool                                            *)

\* The owning thread is inside threadpool_enqueue.
InEnqueueCall == m_pc \in {"e_enqueue", "e_signal", "e_inline", "e_ret"}

\* C5: threadpool_enqueue never waits for queue space.  When the pool has no
\* worker thread or the ring is full the task is run inline before the call
\* returns; otherwise it is stored in the ring and one worker blocked in
\* cnd_wait, if there is one, is woken.
C5_EnqueueNeverBlocks ==
    /\ InEnqueueCall =>
          ENABLED (EnqueueInsert \/ EnqueueSignal \/ EnqueueInline \/ EnqueueReturn)
    /\ m_pc = "e_inline" => (m_seen = 0 \/ m_full)
    /\ m_pc = "e_signal" =>
          /\ m_seen > 0 /\ ~m_full
          /\ queue[(queue_back + QueueSize - 1) % QueueSize] = TaskWork
    /\ m_pc = "e_ret" =>
          /\ m_outcome \in {"inline", "queued"}
          /\ m_outcome = "inline" <=> (m_seen = 0 \/ m_full)
          /\ m_outcome = "inline" => m_woke = NoWorker

\* A call found the ring full and ran its task inline, while a worker was
\* still busy.
C5_Witness ==
    /\ m_pc = "e_ret"
    /\ m_outcome = "inline"
    /\ m_seen > 0
    /\ m_full
    /\ \E w \in Workers : w_pc[w] = "run"

\* C6: threadpool_deinit terminates: once threadpool_stop has been entered,
\* thread_count reaches 0 and threadpool_stop returns.
C6_DeinitTerminates ==
    (m_pc = "s_check") ~> (m_pc = "done" /\ thread_count = 0)

-----------------------------------------------------------------------------
(* Properties of the move generation                                        *)

\* The game loop has ended the move generation and read the entry it plays.
Played == g_pc = "played"

TaskReads(d) == task_status[d] \in {"queued", "running", "node"}

\* C7: the root-position copy and the legal-move array are freed exactly once,
\* by the task that finishes last, and no task reads them after the free.
C7_FreedOnceByLast ==
    /\ freed <= 1
    /\ freed = 1 => \A d \in Depths : task_status[d] = "done"
    /\ \A d \in Depths :
          task_status[d] = "free" =>
              /\ freed = 0
              /\ \A x \in Depths : x /= d => task_status[x] = "done"
    /\ (refcount = 0 /\ g_pc \in {"started", "played"} /\ task_status[1] /= "new")
          => (freed = 1 \/ \E d \in Depths : task_status[d] = "free")

\* Every task has returned and the buffers have been freed, after tasks ran
\* both on workers and inline and some were aborted.
C7_Witness ==
    /\ freed = 1
    /\ \A d \in Depths : task_status[d] = "done"
    /\ \E d \in Depths : task_outcome[d] = "aborted"
    /\ \E d \in Depths : task_outcome[d] = "completed"
    /\ g_pc = "played"

-----------------------------------------------------------------------------
(* Properties of the position model                                         *)

\* The squares a piece list names.
Listed(list) == { list[i] : i \in 0 .. 15 } \ {NULL_BOARDPOS}

\* The squares the board gives to a player.
Occupied(player) ==
    { sq \in Squares : game.board[sq].type # Empty /\ game.board[sq].player = player }

PieceList(player) ==
    IF player = WhitePlayer THEN game.piece_list_white ELSE game.piece_list_black

\* C8: in every position reached by legal moves the entries of each player's
\* piece list that are not NULL are exactly the squares holding that player's
\* pieces, each listed once.
C8_PieceListsMatchBoard ==
    \A p \in Players :
       /\ Listed(PieceList(p)) = Occupied(p)
       /\ \A i, j \in 0 .. 15 :
             (i # j /\ PieceList(p)[i] # NULL_BOARDPOS) => PieceList(p)[i] # PieceList(p)[j]

\* The squares holding a king of the player.
KingSquares(player) == { sq \in Squares : game.board[sq] = Piece(King, player) }

\* C9: in every position reached by legal moves each colour has exactly one
\* king on the board and the cached king coordinate is the square holding it.
C9_KingCacheMatchesBoard ==
    \A p \in Players : KingSquares(p) = {get_king_pos(game, p)}

CastlingRight(player, wing) ==
    IF player = WhitePlayer
    THEN (IF wing = "left" THEN game.white_castlert_left ELSE game.white_castlert_right)
    ELSE (IF wing = "left" THEN game.black_castlert_left ELSE game.black_castlert_right)

RookStart(player, wing) ==
    IF wing = "left" THEN ROOK_STARTING_POSITIONS_LEFT[player]
    ELSE ROOK_STARTING_POSITIONS_RIGHT[player]

\* C10: a castling right is true only if the king of that colour has never
\* moved and the rook of that wing has never moved and has not been captured.
C10_CastlingRightsSound ==
    \A p \in Players : \A wing \in {"left", "right"} :
       CastlingRight(p, wing) =>
          /\ KING_STARTING_POSITIONS[p] \notin disturbed
          /\ RookStart(p, wing) \notin disturbed

-----------------------------------------------------------------------------
(* Properties of the rules of movement                                      *)

\* The two castling moves of a player: the king goes two files from its
\* starting square.
CastlingMoves(player) ==
    { Move(KING_STARTING_POSITIONS[player], BoardPos(file, KING_STARTING_POSITIONS[player][2])) :
        file \in {2, 6} }

\* The corner the rook of a castling move stands on, and the square it goes to.
CastlingCorner(m) == BoardPos(IF m.to[1] = 2 THEN 0 ELSE 7, m.from[2])

CastlingRookTarget(m) == BoardPos(IF m.to[1] = 2 THEN 3 ELSE 5, m.from[2])

\* C11: a castling move is accepted as legal only if a rook of the mover
\* stands on the corner of that wing, and making the move relocates that rook
\* and the king and changes no other square of the board.
C11_CastlingNeedsRook ==
    \A m \in CastlingMoves(player_to_move) :
       (get_piece(game, m.from) = Piece(King, player_to_move) /\ is_move_legal(game, m)) =>
          /\ get_piece(game, CastlingCorner(m)) = Piece(Rook, player_to_move)
          /\ make_move(game, m, TRUE).board =
                [game.board EXCEPT ![m.from] = Piece(Empty, WhitePlayer),
                                   ![m.to] = Piece(King, player_to_move),
                                   ![CastlingCorner(m)] = Piece(Empty, WhitePlayer),
                                   ![CastlingRookTarget(m)] = Piece(Rook, player_to_move)]

\* The squares strictly between two squares of one line are empty.
ClearRay(state, from, d, k) ==
    \A j \in 1 .. (k - 1) : get_piece(state, Step(from, d, j)).type = Empty

\* The piece standing on `from` could capture on `pos` by its movement
\* pattern, as the rules of chess have it.
CouldCapture(state, from, pos) ==
    LET piece == get_piece(state, from)
        slides(dirs) == \E d \in dirs : \E k \in 1 .. 7 :
                           pos = Step(from, d, k) /\ ClearRay(state, from, d, k)
        advance == IF piece.player = WhitePlayer THEN -1 ELSE 1
    IN  CASE piece.type = Queen  -> slides(Directions(Queen))
          [] piece.type = Rook   -> slides(Directions(Rook))
          [] piece.type = Bishop -> slides(Directions(Bishop))
          [] piece.type = Knight -> \E d \in Directions(Knight) : pos = Step(from, d, 1)
          [] piece.type = King   -> \E d \in Directions(King) : pos = Step(from, d, 1)
          [] piece.type = Pawn   -> pos[2] = from[2] + advance /\ abs(pos[1] - from[1]) = 1
          [] OTHER -> FALSE

\* Some piece of the attacker could capture on pos.
Attacked(state, pos, attacker) ==
    \E from \in Squares :
       /\ get_piece(state, from).type # Empty
       /\ get_piece(state, from).player = attacker
       /\ CouldCapture(state, from, pos)

\* C12: is_piece_attacked is true exactly when some piece of the attacking
\* colour could capture on the square by its movement pattern, for every
\* square, empty or occupied, and both attacker colours.
C12_AttackedIffCouldCapture ==
    \A pos \in Squares : \A attacker \in Players :
       is_piece_attacked(game, pos, attacker) <=> Attacked(game, pos, attacker)

\* The squares holding a king of the player in a state.
KingSquaresOf(state, player) ==
    { sq \in Squares : state.board[sq] = Piece(King, player) }

\* C13: a legal move follows the pattern of its piece, is made by the side to
\* move, does not capture a king and leaves the mover's king unattacked; so
\* the side that has just moved is never in check.
C13_LegalMovesKeepKingSafe ==
    /\ \A m \in MoveInputs[scenario] :
          is_move_legal(game, m) =>
             /\ is_move_possible(game, m)
             /\ get_piece(game, m.from).player = player_to_move
             /\ get_piece(game, m.to).type # King
             /\ \A k \in KingSquaresOf(make_move(game, m, FALSE), player_to_move) :
                   ~Attacked(make_move(game, m, FALSE), k, other_player(player_to_move))
    /\ last_ply # NoMove =>
          \A k \in KingSquaresOf(game, last_ply.piece.player) :
             ~Attacked(game, k, player_to_move)

\* The squares a castling king stands on, crosses and lands on.
CastlingKingPath(m) ==
    { BoardPos(file, m.from[2]) : file \in MIN(m.from[1], m.to[1]) .. MAX(m.from[1], m.to[1]) }

\* The squares between the king and the rook of a castling move.
CastlingBetween(m) ==
    { BoardPos(file, m.from[2]) :
        file \in (MIN(m.from[1], CastlingCorner(m)[1]) + 1) ..
                 (MAX(m.from[1], CastlingCorner(m)[1]) - 1) }

CastlingRightOf(state, player, m) ==
    IF player = WhitePlayer
    THEN (IF m.to[1] = 2 THEN state.white_castlert_left ELSE state.white_castlert_right)
    ELSE (IF m.to[1] = 2 THEN state.black_castlert_left ELSE state.black_castlert_right)

\* C14: with the right intact, king and rook at home and the squares between
\* them empty, a castling move is legal exactly when none of the squares the
\* king stands on, crosses and lands on is attacked by an opposing piece,
\* pawns included.
C14_CastlingThroughAttack ==
    \A m \in CastlingMoves(player_to_move) :
       (/\ get_piece(game, m.from) = Piece(King, player_to_move)
        /\ get_piece(game, CastlingCorner(m)) = Piece(Rook, player_to_move)
        /\ CastlingRightOf(game, player_to_move, m)
        /\ \A sq \in CastlingBetween(m) : get_piece(game, sq).type = Empty)
       => (is_move_legal(game, m) <=>
             \A sq \in CastlingKingPath(m) :
                ~Attacked(game, sq, other_player(player_to_move)))

\* The last ply was a double pawn push.
DoublePush == last_ply.piece.type = Pawn /\ abs(last_ply.move.from[2] - last_ply.move.to[2]) = 2

\* The en-passant target file a colour ought to have: the file of the double
\* pawn push the opponent has just made, if any.
ExpectedTarget(player) ==
    IF DoublePush /\ last_ply.piece.player = other_player(player)
    THEN last_ply.move.from[1]
    ELSE -1

\* The moves of the shape of an en-passant capture for the side to move: a
\* pawn goes one square diagonally forward to an empty square.
EnPassantMoves ==
    { m \in { Move(from, BoardPos(from[1] + df, from[2] + (IF game.white_to_move THEN -1 ELSE 1))) :
                from \in Squares, df \in {-1, 1} } :
        /\ m.to \in Squares
        /\ get_piece(game, m.from) = Piece(Pawn, player_to_move)
        /\ get_piece(game, m.to).type = Empty }

\* C15: the en-passant target file of a colour is the file of the double pawn
\* push its opponent made on the ply just before, and none otherwise; an
\* en-passant capture is legal only on the ply right after that push, and is
\* then legal unless it leaves the mover in check.
C15_EnPassantTarget ==
    /\ \A p \in Players : get_enpassant_target_file(game, p) = ExpectedTarget(p)
    /\ \A m \in EnPassantMoves :
          /\ is_move_legal(game, m) =>
                (ExpectedTarget(player_to_move) = m.to[1] /\ last_ply.move.to = BoardPos(m.to[1], m.from[2]))
          /\ (ExpectedTarget(player_to_move) = m.to[1] /\ last_ply.move.to = BoardPos(m.to[1], m.from[2])
              /\ is_state_legal(make_move(game, m, FALSE)))
                => is_move_legal(game, m)

\* An en-passant capture has just been made and has removed the pushed pawn;
\* before it the capture was refused on a later ply in some other game.
C15_Witness ==
    /\ last_ply.piece.type = Pawn
    /\ last_ply.move.from[1] # last_ply.move.to[1]
    /\ last_ply.captured.type = Empty
    /\ get_piece(game, BoardPos(last_ply.move.to[1], last_ply.move.from[2])).type = Empty

\* C16: after every make_move a king-in-check flag is true exactly when the
\* square holding that king is attacked by the other side.
C16_CheckFlagsMatchAttack ==
    \A p \in Players : \A k \in KingSquares(p) :
       is_player_in_check(game, p) = is_piece_attacked(game, k, other_player(p))


-----------------------------------------------------------------------------
(* Properties of the opening-book step of generate_move                     *)

\* generate_move is past its book step.
BookDecided == g_pc \notin {"idle", "book"}

\* The book step found a legal move: the ply count is <= 5, the book has an
\* entry for the hash and the move picked from it is legal.
BookHit ==
    /\ root_move_count <= 5
    /\ opening /= {}
    /\ book_move \in opening
    /\ is_root_move_legal(book_move)

Dispatched(d) == task_status[d] /= "new"

\* What C17 says of a state.
BookMoveOrAllDepths ==
    /\ g_pc /= "crashed"
    /\ ~BookDecided => \A d \in Depths : ~Dispatched(d)
    /\ BookDecided /\ BookHit =>
          /\ tp_table[SlotOf(RootHash)] =
                TranspositionEntry(RootHash, book_move, CHAR_MAX, 0, EntryTypeExact)
          /\ \A d \in Depths : ~Dispatched(d)
          /\ g_pc \in {"started", "played"}
    /\ BookDecided /\ ~BookHit =>
          /\ slot_origin.kind /= "book"
          /\ \A d \in Depths : Dispatched(d) => \A e \in 1 .. d : Dispatched(e)
          /\ g_pc = "enqueue" => \A d \in Depths : Dispatched(d) <=> d < next_depth
          /\ g_pc = "inline" => \A d \in Depths : Dispatched(d) <=> d <= next_depth
          /\ g_pc \in {"started", "played"} => \A d \in Depths : Dispatched(d)
          /\ Cardinality({ d \in Depths : Dispatched(d) }) <= MaxSearchDepth

\* C17: when the ply count is <= 5, the book has an entry and the move picked
\* is legal, the root entry of the table is {that move, CHAR_MAX, Exact} and
\* no search task is dispatched; in every other case (picked move illegal, ply
\* count > 5, no entry) nothing of the book reaches the table and the root
\* searches of depths 1 .. MAX_SEARCH_DEPTH are dispatched, one each, in
\* increasing order.
C17_BookMoveOrAllDepths == BookMoveOrAllDepths

\* find_opening_by_hash has given generate_move something else than the
\* book's entry for the hash or NULL.
LookupUndefined ==
    \/ g_pc = "crashed"
    \/ book_move /= NULL_MOVE /\ book_move \notin opening

\* The book step is as C17 says whenever the lookup is not undefined.
BookMoveOrAllDepthsWhenDefined == LookupUndefined \/ BookMoveOrAllDepths

\* The move picked from the book entry was not legal, and generate_move has
\* returned after dispatching the root search of every depth.
IllegalPickSearched ==
    /\ g_pc = "started"
    /\ root_move_count <= 5
    /\ book_move = CollisionMove
    /\ book_move \in opening
    /\ \A d \in Depths : Dispatched(d)

-----------------------------------------------------------------------------
(* Properties of the opening book                                           *)

\* find_opening_by_hash(bs_hash) has returned for a loaded book.
FindDone == bs_pc = "done" /\ book_pc = "loaded"

ItemHashes == { items[k].hash : k \in 1 .. items_count }

\* The item returned is an item of the book for bs_hash that lists the move.
ReturnsItemWith(move) ==
    /\ bs_result /= NULL_ITEM
    /\ bs_result \in 0 .. (items_count - 1)
    /\ items[bs_result + 1].hash = bs_hash
    /\ \E k \in 1 .. Len(items[bs_result + 1].moves) : items[bs_result + 1].moves[k] = move

PromotionAccepted(i) ==
    promo_piece_of(book_file[i].move) \in {PROMO_PIECE_NONE, PROMO_PIECE_QUEEN}

\* Record i is one init_opening_book keeps: its promotion value is accepted,
\* the accepted records before it have fewer than ITEMS_MAX different hashes,
\* and fewer than UINT8_MAX of them have its hash.
RecordKept(i) ==
    /\ PromotionAccepted(i)
    /\ Cardinality({ book_file[j].hash : j \in { k \in 1 .. (i - 1) : PromotionAccepted(k) } })
          < ITEMS_MAX
    /\ Cardinality({ j \in 1 .. (i - 1) :
                       PromotionAccepted(j) /\ book_file[j].hash = book_file[i].hash })
          < UINT8_MAX

C19_SearchStaysInBounds ==
    /\ ~bs_wrapped
    /\ ~bs_outside
    /\ bs_pc /= "crashed"
    /\ FindDone /\ bs_hash \notin ItemHashes => bs_result = NULL_ITEM

\* The search leaves the array only for a hash below the hash of items[0].
BelowSmallest == items_count > 0 /\ bs_hash < items[1].hash

SearchInBoundsUnlessBelowSmallest ==
    /\ (bs_wrapped \/ bs_outside \/ bs_pc = "crashed") => BelowSmallest
    /\ FindDone /\ bs_hash \notin ItemHashes /\ ~BelowSmallest => bs_result = NULL_ITEM

-----------------------------------------------------------------------------
(* Properties of the search values                                          *)

\* C20: INT_MIN is reserved for a search stopped by the time limit: negamax
\* returns INT_MIN only when that call or a call below it found the time
\* elapsed, every other value returned or stored is in INT_MIN + 1 .. INT_MAX,
\* and no negation of the search (-value, -alpha, -beta) is applied to INT_MIN.
C20_IntMinOnlyOnTimeout ==
    /\ ~overflowed
    /\ returned.value \in INT_MIN .. INT_MAX
    /\ returned.value = INT_MIN => returned.timed /\ time_up
    /\ returned.timed => returned.value = INT_MIN
    /\ table_entry.value \in (INT_MIN + 1) .. INT_MAX
    /\ \A k \in 1 .. Len(call_stack) :
          /\ call_stack[k].alpha \in (INT_MIN + 1) .. INT_MAX
          /\ call_stack[k].beta \in (INT_MIN + 1) .. INT_MAX
          /\ call_stack[k].pc = "got" /\ returned.value /= INT_MIN =>
                -returned.value \in (INT_MIN + 1) .. INT_MAX

\* A negamax call two plies below the root has passed INT_MIN up after the
\* time ran out, while the table holds the value of a search that completed.
C20_Witness ==
    /\ Len(call_stack) = 2
    /\ call_stack[2].pc = "got"
    /\ returned.value = INT_MIN
    /\ returned.timed
    /\ table_entry.depth /= 0
    /\ table_entry.value = -MateValue

-----------------------------------------------------------------------------
(* Properties of the search of a position                                   *)

\* A call of negamax_from_root has run to completion.
RootSearchDone == root_pc = "done"

\* The entry of the searched position in the table.
RootEntry == table_get(position_table, root_state.hash)

\* The side to move has a move that checkmates the opponent.
HasCheckmatingMove ==
    \E i \in 1 .. Len(root_legal_moves) : Checkmates(root_state, root_legal_moves[i])

\* The completed search has recorded its best move with the value of a won
\* position.
RecordsWinningMove ==
    /\ root_best_value = CheckmateValue
    /\ RootEntry = TranspositionEntry(root_state.hash, root_best_move, root_depth,
                                      CheckmateValue, EntryTypeExact)
    /\ is_move_legal(root_state, root_best_move)

-----------------------------------------------------------------------------
(* Properties of the hash and of promotion                                  *)

\* The position a saved game is loaded as.
Reloaded(state) == fen_to_gamestate(gamestate_to_fen(state))

\* C22: the hash stored in a position made by init_gamestate, by
\* fen_to_gamestate or by make_move with calculate_hash = true along legal
\* moves equals hash_state recomputed from the position, and make_move with
\* calculate_hash = false sets the hash to 0.
C22_HashMatchesPosition ==
    /\ game.hash = hash_state(game)
    /\ Reloaded(game) # NULL => Reloaded(game).hash = hash_state(Reloaded(game))
    /\ \A move \in MoveInputs[scenario] :
          is_move_legal(game, move) => make_move(game, move, FALSE).hash = ZeroHash

\* Some moves have been made, the position can be reloaded and a further move
\* is legal.
C22_Witness ==
    /\ game.move_count >= 3
    /\ game.hash # init_gamestate.hash
    /\ game.hash # ZeroHash
    /\ Reloaded(game) # NULL
    /\ \E move \in MoveInputs[scenario] : is_move_legal(game, move)

\* C23: make_move turns every pawn that arrives on rank 0 or rank 7 into a
\* queen of the same colour, so no position has a pawn on rank 0 or 7.
C23_NoPawnOnLastRank ==
    /\ \A sq \in Squares : get_piece(game, sq).type = Pawn => sq[2] \notin {0, 7}
    /\ (last_ply.piece.type = Pawn /\ last_ply.move.to[2] \in {0, 7})
          => get_piece(game, last_ply.move.to) = Piece(Queen, last_ply.piece.player)

\* A black pawn has just arrived on rank 7, after a white pawn has become a
\* queen on rank 0.
C23_Witness ==
    /\ last_ply.piece = Piece(Pawn, BlackPlayer)
    /\ last_ply.move.to[2] = 7
    /\ get_piece(game, last_ply.move.to) = Piece(Queen, BlackPlayer)
    /\ \E sq \in Squares : get_piece(game, sq) = Piece(Queen, WhitePlayer) /\ sq # BoardPos(3, 7)

-----------------------------------------------------------------------------
(* Properties of the program                                                *)

\* The pieces of seq between the separators.
RECURSIVE Split(_, _)
Split(seq, sep) ==
    IF \E n \in 1 .. Len(seq) : seq[n] = sep
    THEN LET n == CHOOSE m \in 1 .. Len(seq) :
                     seq[m] = sep /\ \A j \in 1 .. (m - 1) : seq[j] # sep
         IN  <<SubSeq(seq, 1, n - 1)>> \o Split(SubSeq(seq, n + 1, Len(seq)), sep)
    ELSE <<seq>>

\* Number of squares a rank of the piece placement describes, -1 when it has
\* a character that is neither a piece letter nor a digit from 1 to 8.
RECURSIVE RankWidth(_)
RankWidth(rank) ==
    IF rank = <<>> THEN 0
    ELSE LET rest == RankWidth(Tail(rank))
             here == IF IndexOf(PIECES, Head(rank)) # 0 \/ IndexOf(LOWER_PIECES, Head(rank)) # 0
                     THEN 1
                     ELSE IF IndexOf(DIGITS, Head(rank)) \in 2 .. 9
                     THEN IndexOf(DIGITS, Head(rank)) - 1
                     ELSE -1
         IN  IF rest = -1 \/ here = -1 THEN -1 ELSE here + rest

\* The string is a record of Forsyth-Edwards notation: six fields; eight ranks
\* of eight squares with one king of each colour; a side to move; castling
\* rights; an en passant target square; two numbers.
WellFormedFen(fen) ==
    LET fields == Split(fen, " ")
        ranks == Split(fields[1], "/")
        count(c) == Cardinality({n \in 1 .. Len(fields[1]) : fields[1][n] = c})
    IN  /\ Len(fields) = 6
        /\ Len(ranks) = 8
        /\ \A r \in 1 .. 8 : RankWidth(ranks[r]) = 8
        /\ count("K") = 1 /\ count("k") = 1
        /\ fields[2] \in {<<"w">>, <<"b">>}
        /\ \/ fields[3] = <<"-">>
           \/ /\ fields[3] # <<>>
              /\ \E keep \in SUBSET (1 .. 4) :
                    fields[3] = SelectSeq(<<"K", "Q", "k", "q">>,
                                          LAMBDA c : IndexOf(<<"K", "Q", "k", "q">>, c) \in keep)
        /\ \/ fields[4] = <<"-">>
           \/ /\ Len(fields[4]) = 2
              /\ IndexOf(FILES, fields[4][1]) # 0
              /\ fields[4][2] \in {"3", "6"}
        /\ \A f \in 5 .. 6 :
              fields[f] # <<>> /\ \A n \in 1 .. Len(fields[f]) : isdigit(fields[f][n])

\* C24: when Load Game is given a string that is not a FEN record, the load
\* fails (frontend_new_game_from_fen returns false) and the position, the move
\* log, the winner and the transposition table stay as they were.
C24_InvalidFenLeavesStateUntouched ==
    [][\A two_player \in BOOLEAN, clip \in 1 .. Len(ClipboardInputs) :
          (LoadGameButton(two_player, clip) /\ ~WellFormedFen(ClipboardInputs[clip]))
          => /\ load_returned' = "false"
             /\ game' = game
             /\ move_log' = move_log
             /\ winner' = winner
             /\ game_table' = game_table]_vars

\* C24, for the strings the parser rejects alone: the position, the move log,
\* the winner and the transposition table stay as they were.
C24_RejectedLoadLeavesStateUntouched ==
    [][\A two_player \in BOOLEAN, clip \in 1 .. Len(ClipboardInputs) :
          (LoadGameButton(two_player, clip) /\ load_returned' = "false")
          => /\ game' = game
             /\ move_log' = move_log
             /\ winner' = winner
             /\ game_table' = game_table]_vars

\* A game with a move made, a move logged and an entry in the table.
GameInProgress ==
    /\ main_pc = "loop"
    /\ game # init_gamestate
    /\ move_log # <<>>
    /\ \E e \in game_table : ~boardpos_eq(e.best_move.from, NULL_BOARDPOS)

\* C24, what the program does: a load that fails has reset the game before the
\* string was parsed, and the default game is started in its place.
C24_FailedLoadStartsDefaultGame ==
    [][\A two_player \in BOOLEAN, clip \in 1 .. Len(ClipboardInputs) :
          (LoadGameButton(two_player, clip) /\ load_returned' = "false")
          => /\ game' = init_gamestate
             /\ move_log' = <<>>
             /\ winner' = WINNER_NONE
             /\ game_table' = {}
             /\ message_box' = "invalid"]_vars

\* C24: a string that is not a FEN record is taken for one.
C24_MalformedFenLoaded ==
    /\ load_returned = "true"
    /\ game = fen_to_gamestate(ShortRanksFen)
    /\ ~WellFormedFen(ShortRanksFen)

\* C30: every operation of the transposition table locks tp_table_mutex
\* between the mtx_init of tptable_init and the mtx_destroy of tptable_deinit.
C30_TableOperationsInsideMutexLife == tt_misuse = {}

\* C30, the new-game and shutdown sequences: once tptable_init has run, no
\* further operation locks the mutex outside its life.
C30_NoMisuseAfterInit ==
    [][(main_pc \in {"loop", "exited", "crashed"}) => (tt_misuse' = tt_misuse)]_vars

-----------------------------------------------------------------------------
(* Properties of saving and loading a position (fen.c)                      *)

\* The squares a piece list names.
ListEntries(list) == { list[i] : i \in DOMAIN list } \ {NULL_BOARDPOS}

\* What the text of a saved position carries: the board, the side to move,
\* the castling rights, the en passant targets and, with them, the hash.
SameWrittenFields(loaded, state) ==
    /\ loaded.board = state.board
    /\ loaded.white_to_move = state.white_to_move
    /\ loaded.white_castlert_left = state.white_castlert_left
    /\ loaded.white_castlert_right = state.white_castlert_right
    /\ loaded.black_castlert_left = state.black_castlert_left
    /\ loaded.black_castlert_right = state.black_castlert_right
    /\ loaded.enpassant_target_white = state.enpassant_target_white
    /\ loaded.enpassant_target_black = state.enpassant_target_black
    /\ loaded.hash = state.hash

\* What fen_to_gamestate works out again from the board, and the ply count.
SameDerivedFields(loaded, state) ==
    /\ loaded.white_king = state.white_king
    /\ loaded.black_king = state.black_king
    /\ loaded.white_king_in_check = state.white_king_in_check
    /\ loaded.black_king_in_check = state.black_king_in_check
    /\ loaded.move_count = state.move_count
    /\ ListEntries(loaded.piece_list_white) = ListEntries(state.piece_list_white)
    /\ ListEntries(loaded.piece_list_black) = ListEntries(state.piece_list_black)

\* C25: for every position reached from the initial position by legal moves,
\* fen_to_gamestate(gamestate_to_fen(P)) succeeds and equals P in the board,
\* the side to move, the castling rights, the en passant targets, the king
\* squares, the check flags, the hash, the ply count and the set of entries of
\* each piece list; the initial position is written as the standard start FEN,
\* and parsing that gives the initial hash.
C25_FenRoundTrip ==
    /\ Reloaded(game) # NULL
    /\ SameWrittenFields(Reloaded(game), game)
    /\ SameDerivedFields(Reloaded(game), game)
    /\ gamestate_to_fen(init_gamestate) = StartFen
    /\ fen_to_gamestate(StartFen).hash = init_gamestate.hash

\* The part of C25 that the saved text decides: the position loads, the
\* written fields and the hash come back, the ply count comes back as 0, and
\* the start position is written as the standard start FEN.
C25_WrittenFieldsRoundTrip ==
    /\ Reloaded(game) # NULL
    /\ SameWrittenFields(Reloaded(game), game)
    /\ Reloaded(game).move_count = 0
    /\ gamestate_to_fen(init_gamestate) = StartFen
    /\ fen_to_gamestate(StartFen).hash = init_gamestate.hash

\* A position with an en passant target and lost castling rights that differs
\* from its reloaded copy in the ply count alone.
C25_PlyCountLost ==
    /\ game.move_count >= 3
    /\ game.enpassant_target_white # -1 \/ game.enpassant_target_black # -1
    /\ ~game.white_castlert_left \/ ~game.black_castlert_left
    /\ Reloaded(game) # NULL
    /\ Reloaded(game) = [game EXCEPT !.move_count = 0,
                                     !.piece_list_white = Reloaded(game).piece_list_white,
                                     !.piece_list_black = Reloaded(game).piece_list_black]
    /\ ListEntries(Reloaded(game).piece_list_white) = ListEntries(game.piece_list_white)
    /\ ListEntries(Reloaded(game).piece_list_black) = ListEntries(game.piece_list_black)

-----------------------------------------------------------------------------
(* Properties of the legality checks                                        *)

\* C26: is_move_legal, is_player_checkmated, is_stalemate and the move
\* generators leave every field of the GameState they are given as it was
\* when they were called, whatever they answer: the trial move is made on a
\* copy in another block.
C26_LegalityChecksLeaveStateUnchanged ==
    called.name \notin {"none", "make_move"}
        => heap["state"] = [bytes |-> entry_state, allocated |-> TRUE]

\* is_player_checkmated has answered true after a move: every move of the
\* mated player that follows the rules of its piece was tried and rejected.
C26_Witness ==
    /\ called.name = "is_player_checkmated"
    /\ answer = TRUE
    /\ entry_state.move_count >= 1
    /\ \E move \in TrialInputs : follows_move_rules(entry_state, move)

\* is_move_legal has tried a move and accepted it, after two moves.
C26_LegalAnswer ==
    /\ called.name = "is_move_legal"
    /\ answer = TRUE
    /\ entry_state.move_count >= 2

\* The entry generate_move leaves at the hash of the position when its tasks
\* run on the calling thread and the clock lets the searches of the depths up
\* to `last` complete.
root_entry_after(last) ==
    table_get(movegen_tasks(game, 1, last, set_protected_hash(game_table, game.hash)),
              game.hash)

\* game_loop is about to call generate_move in a build without threads.
ComputerToGenerate ==
    /\ main_pc = "loop"
    /\ ~c11_build
    /\ winner = WINNER_NONE /\ ~two_player_mode /\ ~game.white_to_move
    /\ ~movegen_started

\* C27: with every search task run inline on the calling thread, two runs of
\* generate_move from the same position and the same table contents leave the
\* same entry at the root hash (best_move, depth, value and bound kind).
C27_InlineRunsLeaveSameRootEntry ==
    ComputerToGenerate =>
        \A last1, last2 \in 1 .. MaxGenerateDepth :
            root_entry_after(last1) = root_entry_after(last2)

\* What the inline runs do agree on: the entry is exact, for this position,
\* its best move is legal, and its depth is the deepest depth whose search
\* was not cut off by the clock.
C27_RootEntryOfDeepestCompletedSearch ==
    ComputerToGenerate =>
        \A last \in 1 .. MaxGenerateDepth :
            /\ root_entry_after(last).hash = game.hash
            /\ root_entry_after(last).type = EntryTypeExact
            /\ root_entry_after(last).depth = last
            /\ is_move_legal(game, root_entry_after(last).best_move)

\* generate_move has run inline and the game loop has played its move.
C27_InlineGenerationPlayed ==
    /\ ~c11_build
    /\ ~two_player_mode
    /\ main_pc = "loop"
    /\ Len(move_log) >= 2
    /\ game.white_to_move

-----------------------------------------------------------------------------
(* Properties of the workers of the pool                                    *)

\* threadpool_deinit has not been called.
PoolInUse == m_pc \in {"idle", "e_enqueue", "e_signal", "e_inline", "e_ret"}

\* C28: a worker leaves its loop only after running a task whose function
\* returned false (the stop sentinel of threadpool_stop); a worker that
\* cnd_wait has woken finds a task to dequeue; so thread_count keeps its value
\* until threadpool_deinit is called.
C28_WorkerExitsOnlyAfterStopTask ==
    [][/\ \A w \in Workers :
             /\ (w_pc[w] = "woken" /\ w_pc'[w] # "woken") => w_pc'[w] = "run"
             /\ (w_pc[w] # "exit" /\ w_pc'[w] = "exit")
                   => (w_pc[w] = "run" /\ ~TaskFuncReturns(w_task[w]))
       /\ PoolInUse' => thread_count' = thread_count]_vars

\* What holds of a worker's exit: it follows a stop sentinel, or a wake-up
\* that found dequeue_already_locked returning false, and thread_count is the
\* number of workers that have not exited.
C28_WorkerExitsAfterStopOrFailedDequeue ==
    [][/\ \A w \in Workers :
             (w_pc[w] # "exit" /\ w_pc'[w] = "exit")
                => \/ (w_pc[w] = "run" /\ ~TaskFuncReturns(w_task[w]))
                   \/ (w_pc[w] = "woken" /\ ~Dequeue(queue, queue_front, queue_back).ok)
       /\ thread_count' = Cardinality({ w \in Workers : w_pc'[w] # "gone" })]_vars

\* A worker that threadpool_init started (a later one is still there) has
\* exited although threadpool_deinit was never called and no stop sentinel
\* exists.
C28_WorkerLostWhileInUse ==
    /\ PoolInUse
    /\ \E w, x \in Workers : w < x /\ w_pc[w] = "gone" /\ w_pc[x] # "gone"
    /\ \A i \in QueueIndex : queue[i] # TaskStop

\* C29: every task passed to threadpool_enqueue while the pool is not being
\* torn down is run, inline by the caller or in the end by a worker, whatever
\* the number of queued tasks from none to QueueSize: a queue that holds a task
\* can be dequeued, and the queued tasks are all taken in the end.
C29_EveryTaskIsRun ==
    /\ [](pending > 0 => Dequeue(queue, queue_front, queue_back).ok)
    /\ (PoolInUse /\ pending > 0) ~> (pending = 0 \/ ~PoolInUse)

\* What holds of the ring: it can be dequeued while it holds fewer than
\* QueueSize tasks, and the task taken is the oldest one.
C29_PartlyFilledQueueCanBeDequeued ==
    (pending > 0 /\ pending < QueueSize)
        => /\ Dequeue(queue, queue_front, queue_back).ok
           /\ Dequeue(queue, queue_front, queue_back).task = queue[queue_front]
           /\ queue_front = (queue_back + QueueSize - pending) % QueueSize

\* The ring holds QueueSize tasks passed to threadpool_enqueue and
\* dequeue_already_locked finds nothing in it.
C29_FullQueueLooksEmpty ==
    /\ PoolInUse
    /\ pending = QueueSize
    /\ \A i \in QueueIndex : queue[i] = TaskWork
    /\ ~Dequeue(queue, queue_front, queue_back).ok


-----------------------------------------------------------------------------
(* An aborted search (SpecNegamax)                                          *)

\* A call of negamax has just returned INT_MIN to the call on top.
ChildAborted == call_stack /= <<>> /\ Top.pc = "got" /\ returned.value = INT_MIN

\* C33: when a call of negamax returns INT_MIN to its caller, the caller
\* writes no entry of the table; a caller that is negamax returns INT_MIN in
\* its turn, without running another pass of its loop, and a caller that is
\* negamax_from_root returns.
C33_AbortedSearchStoresNothing ==
    [][ChildAborted =>
          /\ table_entry' = table_entry
          /\ call_stack' /= call_stack =>
                /\ Len(call_stack') = Len(call_stack) - 1
                /\ ~Top.root => returned'.value = INT_MIN /\ Top'.pc = "got"]_vars

\* A search of depth 3 has been given up two calls down, after a call below
\* had stored its entry, and negamax_from_root has returned.
C33_AbortedRootReturned ==
    /\ call_stack = <<>>
    /\ returned.value = INT_MIN
    /\ returned.depth = MaxRootDepth - 1
    /\ table_entry.depth = 1


-----------------------------------------------------------------------------
(* The time limit of the search (SpecNegamax)                               *)

\* A call of negamax has been entered after the time of the search elapsed,
\* and the step is the one that runs it up to its return or its move loop.
LateCallRuns ==
    /\ call_stack /= <<>>
    /\ Top.pc = "entry"
    /\ time_up
    /\ call_stack' /= call_stack

\* The entry of the table answers the call on top without a search.
EntryAnswers ==
    /\ table_entry.depth /= 0
    /\ table_entry.depth >= Top.depth
    /\ returned'.value = table_entry.value

\* C34, as stated: every call of negamax entered after the time of the search
\* has elapsed returns INT_MIN.
C34_EveryLateCallReturnsIntMin ==
    [][LateCallRuns => returned'.value = INT_MIN]_vars

\* C34, amended: a call of negamax entered after the time of the search has
\* elapsed returns without a pass of its move loop, and it returns INT_MIN
\* unless the entry of the table answers it, the game is over in its position
\* or its depth is 0.
C34_LateCallSearchesNoMove ==
    [][LateCallRuns =>
          /\ Len(call_stack') = Len(call_stack) - 1
          /\ \/ returned'.value = INT_MIN /\ returned'.timed
             \/ EntryAnswers
             \/ returned'.value \in {-MateValue, 0, MateValue}
             \/ Top.depth = 0]_vars

\* A call of depth 1 or more, entered after the time had elapsed, has
\* returned INT_MIN to the call that made it.
C34_LateCallGaveUp ==
    /\ call_stack /= <<>>
    /\ Top.pc = "got"
    /\ time_up
    /\ returned.value = INT_MIN
    /\ returned.timed
    /\ returned.depth >= 1


-----------------------------------------------------------------------------
(* The entry negamax stores (SpecNegamax)                                   *)

\* The call of negamax on top has ended its move loop, and the step is the
\* one in which it stores its entry and returns.
NodeCompletes ==
    /\ call_stack /= <<>>
    /\ ~Top.root
    /\ Top.pc = "end" \/ (Top.pc = "loop" /\ Top.i = Top.move_count)
    /\ call_stack' /= call_stack

\* The greatest of the values the call on top has compared.
GreatestValue ==
    CHOOSE v \in {Top.values[k] : k \in DOMAIN Top.values} :
        \A k \in DOMAIN Top.values : Top.values[k] <= v

\* The first move, in the order of the search, that has the greatest value.
FirstGreatest ==
    CHOOSE k \in DOMAIN Top.values :
        /\ Top.values[k] = GreatestValue
        /\ \A j \in 1 .. (k - 1) : Top.values[j] < GreatestValue

\* The entry the claim describes for the call on top; the beta is the one of
\* the call after the probe of the table.
ClaimedEntry ==
    [depth |-> Top.depth,
     value |-> GreatestValue,
     type |-> IF GreatestValue <= Top.start_alpha THEN EntryTypeUpper
              ELSE IF GreatestValue >= Top.beta THEN EntryTypeLower
              ELSE EntryTypeExact,
     best_move |-> FirstGreatest]

\* C35, as stated: a call of negamax that completes its node leaves its entry
\* in the table: depth, best_value, the first move that attained best_value,
\* Upper when best_value <= the alpha of the entry into the call, Lower when
\* best_value >= beta, Exact otherwise.
C35_CompletedNodeStoresItsEntry ==
    [][NodeCompletes => table_entry' = ClaimedEntry]_vars

\* C35, amended: a call of negamax that completes its node returns the
\* greatest value and hands that entry to tptable_put once; the table has it
\* afterwards unless tptable_put keeps what the slot held.
C35_CompletedNodeOffersItsEntry ==
    [][NodeCompletes =>
          /\ returned'.value = GreatestValue
          /\ table_entry' \in {ClaimedEntry, table_entry}]_vars

\* A call has stored a Lower entry whose best move is the second of two
\* moves, and a call has stored an Upper entry.
C35_SecondMoveStored ==
    /\ table_entry.depth = 1
    /\ table_entry.best_move = 2
    /\ table_entry.type = EntryTypeLower
    /\ returned.value = table_entry.value
    /\ returned.depth = 1
    /\ call_stack /= <<>>

\* A call of depth 1 has completed its node under a table that keeps its
\* entry of depth 2.
C35_DeeperEntryKept ==
    /\ table_entry.depth = 2
    /\ returned.depth = 1
    /\ returned.value /= table_entry.value
    /\ returned.value \notin {INT_MIN, -MateValue, MateValue}
    /\ call_stack /= <<>>
    /\ Top.pc = "got"
    /\ Top.depth = 2


-----------------------------------------------------------------------------
(* The depth of a stored position (SpecTT)                                  *)

\* The thread is between the two halves of a store into the slot.
StoringInto(t, slot) ==
    \/ tt_pc[t] = "put_store2" /\ SlotOf(tt_entry[t].hash) = slot
    \/ tt_pc[t] = "protect_store2" /\ SlotOf(tt_hash[t]) = slot

\* What a caller of the table can find in the slot: the slot, or what it held
\* when the thread that is storing into it under the mutex began.
HeldIn(slot) ==
    IF \E t \in Threads : StoringInto(t, slot)
    THEN tt_local[CHOOSE t \in Threads : StoringInto(t, slot)]
    ELSE tp_table[slot]

\* A thread is inside tptable_clear.
Clearing == \E t \in Threads : tt_pc[t] = "clear_memset"

\* C38: outside tptable_clear, as long as a slot holds the same hash from one
\* step to the next the depth stored with it does not decrease, whichever
\* thread's tptable_put or tptable_set_protected_hash comes first.
C38_StoredDepthNeverDecreases ==
    [][~Clearing =>
          \A slot \in Slots :
              HeldIn(slot)'.hash = HeldIn(slot).hash =>
                  HeldIn(slot)'.depth >= HeldIn(slot).depth]_vars

\* A slot holds a position at depth 2 and tptable_put has just refused an
\* entry of depth 1 for the same position, handed in by a task that finished
\* later.
C38_ShallowerEntryRefused ==
    \E t \in Threads :
        /\ tt_pc[t] = "put_unlock"
        /\ tt_entry[t].hash /= 0
        /\ tt_entry[t].hash = tp_table[SlotOf(tt_entry[t].hash)].hash
        /\ tt_entry[t].depth = 1
        /\ tp_table[SlotOf(tt_entry[t].hash)].depth = 2
        /\ tt_local[t] = tp_table[SlotOf(tt_entry[t].hash)]


-----------------------------------------------------------------------------
(* The ring of tasks (SpecPool)                                             *)

\* The tasks in the ring from queue_front on, queue_back excluded, oldest
\* first.
RingContents ==
    IF queue_front = QueueSize THEN <<>>
    ELSE LET count == IF queue_back = queue_front THEN QueueSize
                      ELSE (queue_back + QueueSize - queue_front) % QueueSize
         IN  [k \in 1 .. count |-> queue[(queue_front + k - 1) % QueueSize]]

\* The worker takes a task out of the ring in this step.
Dequeues(w) == w_pc[w] \in {"lock", "woken"} /\ w_pc'[w] = "run"

\* C39: the ring holds the tasks that were enqueued and not yet dequeued, in
\* the order they were enqueued and never more than THREADPOOL_QUEUE_SIZE of
\* them, and dequeue_already_locked gives out the oldest one.
C39_QueueIsBoundedFifo ==
    /\ [](RingContents = fifo /\ Len(fifo) <= QueueSize)
    /\ [][\A w \in Workers : Dequeues(w) => w_task'[w] = Head(fifo)]_vars

\* The ring has wrapped around: it holds a task and the stop sentinel
\* enqueued after it, the older one at the last index and the newer one at
\* index 0, and a worker is running a task it took out earlier.
C39_WrappedRing ==
    /\ queue_front = QueueSize - 1
    /\ queue_back = 1
    /\ fifo = <<TaskWork, TaskStop>>
    /\ \E w \in Workers : w_pc[w] = "run" /\ w_task[w] = TaskWork

\* A worker has taken the older of two different tasks out of a ring that had
\* wrapped around.
C39_OldestTakenFirst ==
    /\ queue_front = 0
    /\ queue_back = 1
    /\ fifo = <<TaskStop>>
    /\ submitted = QueueSize
    /\ \E w \in Workers : w_pc[w] = "run" /\ w_task[w] = TaskWork
    /\ \E w \in Workers : w_pc[w] = "wait"


-----------------------------------------------------------------------------
(* The moves all_legal_moves_ordered returns (SpecChess)                    *)

\* The moves of the player's pieces on the board that is_move_legal accepts.
LegalMovesOnBoard(state, player) ==
    { move \in { Move(from, to) : from \in { pos \in Squares :
                                               /\ get_piece(state, pos).type # Empty
                                               /\ get_piece(state, pos).player = player },
                                  to \in Squares } :
        is_move_legal(state, move) }

\* The move takes a piece, on the square it goes to or en passant.
TakesPiece(state, player, move) ==
    \/ /\ get_piece(state, move.to).type # Empty
       /\ get_piece(state, move.to).player # player
    \/ /\ get_piece(state, move.from).type = Pawn
       /\ move.from[1] # move.to[1]

\* An entry of the table for the position with the given best move.
EntryWithMove(state, move) ==
    TranspositionEntry(state.hash, move, 1, 0, EntryTypeExact)

\* The moves are the legal moves, each once.
ExactlyTheLegalMoves(state, player, moves) ==
    /\ { moves[k] : k \in DOMAIN moves } = LegalMovesOnBoard(state, player)
    /\ \A j, k \in DOMAIN moves : moves[j] = moves[k] => j = k

\* From the place `first` on, the moves that take a piece come before the
\* others.
CapturesFirst(state, player, moves, first) ==
    \A j, k \in first .. Len(moves) :
        j < k /\ TakesPiece(state, player, moves[k]) => TakesPiece(state, player, moves[j])

\* What the claim says of the moves returned without a stored best move, and
\* of those returned when the table has the last of them as the best move.
OrderedLegalMoves(state, player, plain) ==
    /\ ExactlyTheLegalMoves(state, player, plain)
    /\ CapturesFirst(state, player, plain, 1)
    /\ plain # <<>> =>
          LET best == plain[Len(plain)]
              moves == all_legal_moves_ordered(state, player, EntryWithMove(state, best))
          IN  /\ moves[1] = best
              /\ ExactlyTheLegalMoves(state, player, moves)
              /\ CapturesFirst(state, player, moves, 2)
              /\ Tail(moves) = SelectSeq(plain, LAMBDA move : move # best)

-----------------------------------------------------------------------------
(* Checkmate, stalemate and the list of legal moves                          *)

\* The positions of the root search: the root and what each of its moves
\* leaves, the nodes of the first calls of negamax.
SearchedPositions ==
    {root_state} \cup { make_move(root_state, root_legal_moves[i], TRUE) :
                           i \in 1 .. Len(root_legal_moves) }

\* How many of the three hold for the side to move: it is checkmated, the
\* position is stalemate, all_legal_moves_ordered gives at least one move.
OutcomesOf(state) ==
    LET side == IF state.white_to_move THEN WhitePlayer ELSE BlackPlayer
    IN  (IF is_player_checkmated(state, side) THEN 1 ELSE 0)
        + (IF is_stalemate(state) THEN 1 ELSE 0)
        + (IF Len(all_legal_moves_ordered(state, side,
                                          table_get(position_table, state.hash))) >= 1
           THEN 1 ELSE 0)

-----------------------------------------------------------------------------
(* The move game_loop plays is the move of the table entry                   *)

\* C32: every move game_loop takes from the entry of the position's hash and
\* passes to make_move is legal in the position, whatever the table holds.
C32_PlayedMoveIsLegal ==
    (g_pc = "played" /\ ~boardpos_eq(played.best_move.from, NULL_BOARDPOS))
        => is_root_move_legal(played.best_move)

\* The move played is legal whenever the entry read was stored by the book
\* lookup or by a search of the root position itself.
C32_OwnEntryMoveIsLegal ==
    (/\ g_pc = "played"
     /\ ~boardpos_eq(played.best_move.from, NULL_BOARDPOS)
     /\ played_origin.kind # "earlier")
        => is_root_move_legal(played.best_move)

-----------------------------------------------------------------------------
(* The engine's turn comes to an end                                         *)

\* C31: whenever it is the engine's turn, the turn comes to an end: the engine
\* applies a move or a winner is set (or the user starts another game or ends
\* the program); game_loop does not call generate_move for the same position
\* for ever.
C31_EngineTurnEnds == EngineToMove ~> ~EngineToMove

\* It is the engine's turn in a position in which black has a legal move.
EngineHasMove == EngineToMove /\ has_legal_move(game, BlackPlayer)

\* The turn does come to an end in every position in which black has a legal
\* move.
C31_EngineWithMovesPlays == EngineHasMove ~> ~EngineHasMove

\* A position is loaded in which black is to move and has no legal move, and
\* generate_move has been called for it.
C31_LoadedWithoutMoves ==
    /\ EngineToMove
    /\ ~has_legal_move(game, BlackPlayer)
    /\ movegen_started

=============================================================================
